---- MODULE Spec2Model ----
(***************************************************************************)
(* State-machine model of the MQTT broker gclass of yuneta/c-iot           *)
(* (src/src/c_mqtt.c).  Every accepted TCP connection is served by one     *)
(* gobj of the gclass; the gobjs share the client registry (the resource   *)
(* gobj_mqtt_clients).  A step of the model is one event handled by one    *)
(* gobj, run to completion, as the yuneta event loop runs it.              *)
(*                                                                         *)
(* The transport below a gobj (c_tcp0) is not part of the repository.  It  *)
(* is modelled by its observable contract: EV_TX_DATA is accepted while    *)
(* the connection is open; EV_DROP stops the reads at once and the         *)
(* EV_DISCONNECTED that completes the close is delivered to the gobj as a  *)
(* later event (the gclass arms timeout_close and has a handler for        *)
(* "Timeout waiting mqtt disconnected" for exactly that interval).         *)
(***************************************************************************)
EXTENDS Integers, Sequences, FiniteSets, TLC

(***************************************************************************)
(* Bounds of the model                                                     *)
(***************************************************************************)
NumGobjs == 2
MaxSubscriptions == 2
MaxOutMsgs == 2
MaxInMsgs == 2
MaxMid == 2
MaxInflightConf == 1
KeepAliveSecs == 2
MaxIdle == 5
MaxKeepAlive == 2
MaxPacketSizeConf == 20
MaxVarintDelta == 2
MaxBufferPackets == 2
MaxMidDelta == 20

Gobjs == 1 .. NumGobjs
ClientSeq == <<"c1", "c2">>
ClientIds == {ClientSeq[i] : i \in DOMAIN ClientSeq}
Mids == 1 .. MaxMid

(***************************************************************************)
(* Topics and filters are sequences of levels.  NoTopic is a NULL topic.   *)
(***************************************************************************)
NoTopic == << >>
Topics == {<<"a">>}
FilterSeq == << <<"a">>, <<"#">> >>
Filters == {FilterSeq[i] : i \in DOMAIN FilterSeq}

(***************************************************************************)
(* Program constants                                                       *)
(***************************************************************************)
MOSQ_ERR_SUCCESS == 0
MOSQ_ERR_PROTOCOL == -2
MOSQ_ERR_NOT_FOUND == -6
MOSQ_ERR_MALFORMED_PACKET == -21
MOSQ_ERR_QOS_NOT_SUPPORTED == -24
MOSQ_ERR_OVERSIZE_PACKET == -25
MOSQ_ERR_NOMEM == -32
MOSQ_ERR_SUB_EXISTS == -42

CONNACK_ACCEPTED == 0
CONNACK_REFUSED_IDENTIFIER_REJECTED == 2
CONNACK_REFUSED_NOT_AUTHORIZED == 5
MQTT_RC_NO_MATCHING_SUBSCRIBERS == 16
MQTT_RC_UNSPECIFIED == 128
MQTT_RC_MALFORMED_PACKET == 129
MQTT_RC_PROTOCOL_ERROR == 130
MQTT_RC_NOT_AUTHORIZED == 135
MQTT_RC_BAD_AUTHENTICATION_METHOD == 140
MQTT_RC_QOS_NOT_SUPPORTED == 155

ProtocolVersions == {"mosq_p_mqtt311", "mosq_p_mqtt5"}

(***************************************************************************)
(* Configuration attributes of the gclass.  allow_zero_length_clientid     *)
(* keeps its default; allow_anonymous, max_inflight_messages, max_qos,     *)
(* max_keepalive and max_packet_size are writable attributes and are       *)
(* chosen at start-up (variable conf); max_qos, max_keepalive and          *)
(* max_packet_size below are the defaults of the attributes.               *)
(***************************************************************************)
allow_zero_length_clientid == FALSE
max_qos == 2
max_keepalive == 65535
max_packet_size == 0

(***************************************************************************)
(* UINT32_MAX, the session expiry interval of a session that never         *)
(* expires.  The model compares the interval with 0 and reads it into an   *)
(* int (int_of_uint32); the value is the largest integer of the model      *)
(* checker, below 2^32 - 1.                                                *)
(***************************************************************************)
UINT32_MAX == 2147483647

(***************************************************************************)
(* The timeouts of the gclass, in seconds.  NoTimeout is a cleared timer.  *)
(***************************************************************************)
timeout_handshake == 5
timeout_close == 3
pingT == 50
NoTimeout == -1
InflightLimits == 1 .. MaxInflightConf

(***************************************************************************)
(* The user database (gobj_mqtt_users): one user "u" with password "p".    *)
(***************************************************************************)
Users == {"u"}
UserPassword == [u \in Users |-> "p"]

VARIABLES
    conf,       \* configuration attributes chosen at start-up
    tcp,        \* per gobj: state of the transport below it
    priv,       \* per gobj: PRIVATE_DATA
    clients,    \* the client registry, keyed by client id
    timer,      \* per gobj: seconds until priv->timer expires, or NoTimeout
    idle,       \* per gobj: seconds since the connection last received data
    out,        \* what the last step emitted, in order
    last,       \* the event handled by the last step
    uint32,     \* a word that is written to and read from a buffer
    gbuf        \* what is left to read in that buffer

vars == <<conf, tcp, priv, clients, timer, idle, out, last, uint32, gbuf>>

(***************************************************************************)
(* Emissions: packets written to a transport, events sent to a transport   *)
(* (EV_DROP) and events published to the application (EV_ON_OPEN, ...).    *)
(***************************************************************************)
(* The value of a property that the packet does not carry.                 *)
NoProperty == -1

Pkt(to, cmd, mid, rc, qos, topic, dup) ==
    [to |-> to, cmd |-> cmd, mid |-> mid, rc |-> rc, qos |-> qos,
     topic |-> topic, dup |-> dup, source_id |-> "", via |-> NoTopic,
     len |-> 0, server_keep_alive |-> NoProperty]

Ev(to, name) == Pkt(to, name, 0, 0, 0, NoTopic, FALSE)

(* json_pack of the kw of EV_ON_OPEN and EV_ON_CLOSE.  The format "{s:s}"   *)
(* builds the object {"client_id": id}; "s:s" is not a complete format, for *)
(* which json_pack returns NULL: the event then carries no client id.       *)
json_pack(fmt, client_id) == IF fmt = "{s:s}" THEN client_id ELSE ""

(* An event published to the application with that kw; source_id holds the  *)
(* client id of the kw.                                                     *)
EvKw(to, name, kw) == [Ev(to, name) EXCEPT !.source_id = kw]

(***************************************************************************)
(* PRIVATE_DATA after mt_create, and the reset of the volatile attributes  *)
(***************************************************************************)
InitPriv ==
    [in_session |-> FALSE,
     client_id |-> "",
     protocol_version |-> "mosq_p_invalid",
     clean_start |-> FALSE,
     session_expiry_interval |-> 0,
     keepalive |-> 0,
     maximum_packet_size |-> 0,
     client |-> "",
     must_broadcast_on_close |-> FALSE,
     dl_msgs_out |-> << >>,
     dl_msgs_in |-> << >>]

gobj_reset_volatil_attrs(p) ==
    [p EXCEPT !.in_session = FALSE,
              !.client_id = "",
              !.protocol_version = "mosq_p_invalid",
              !.clean_start = FALSE,
              !.session_expiry_interval = 0,
              !.keepalive = 0,
              !.maximum_packet_size = 0,
              !.client = ""]

(***************************************************************************)
(* A registry record.  A client id without a record has exists = FALSE.    *)
(***************************************************************************)
NoRecord ==
    [exists |-> FALSE, isConnected |-> FALSE, gobj |-> 0, gobj_bottom |-> 0,
     last_mid |-> 0, keepalive |-> 0, subscriptions |-> << >>]

NewRecord == [NoRecord EXCEPT !.exists = TRUE]

(***************************************************************************)
(* Transport and low-level send functions.  The world w is the record of   *)
(* the program variables a handler reads and writes.                       *)
(***************************************************************************)
send_packet(w, g, p) ==
    IF w.tcp[g] = "open"
    THEN [w |-> [w EXCEPT !.out = Append(@, p)], rc |-> 0]
    ELSE [w |-> w, rc |-> -1]

do_disconnect(w, g) ==
    [w EXCEPT !.tcp[g] = IF @ = "open" THEN "dropping" ELSE @,
              !.out = Append(@, Ev(g, "EV_DROP"))]

set_timeout(w, g, msec) == [w EXCEPT !.timer[g] = msec]

clear_timeout(w, g) == [w EXCEPT !.timer[g] = NoTimeout]

ws_close(w, g) == set_timeout(do_disconnect(w, g), g, timeout_close)

start_wait_frame_header(w, g) == IF pingT > 0 THEN set_timeout(w, g, pingT) ELSE w

packet_varint_bytes(word) ==
    IF word < 128 THEN 1
    ELSE IF word < 16384 THEN 2
    ELSE IF word < 2097152 THEN 3
    ELSE IF word < 268435456 THEN 4
    ELSE 5

(***************************************************************************)
(* mqtt_write_varint: the do-while loop appends the seven low bits of the  *)
(* word, with the top bit set while digits remain, at most five times; the *)
(* result is the buffer and the return code.                               *)
(***************************************************************************)
RECURSIVE mqtt_write_varint_loop(_, _, _)
mqtt_write_varint_loop(buf, w, count) ==
    LET rest == w \div 128
        byte == IF rest > 0 THEN (w % 128) + 128 ELSE w % 128
    IN  IF rest > 0 /\ count + 1 < 5
        THEN mqtt_write_varint_loop(Append(buf, byte), rest, count + 1)
        ELSE [gbuf |-> Append(buf, byte), rc |-> IF count + 1 = 5 THEN -1 ELSE 0]

mqtt_write_varint(buf, w) == mqtt_write_varint_loop(buf, w, 0)

(***************************************************************************)
(* mqtt_read_varint: at most four bytes are read; a last byte 0 after the  *)
(* first one is an overlong encoding.  The result is the return code, the  *)
(* word (the caller's value when the read fails), the number of bytes of   *)
(* the encoding and the buffer left.                                       *)
(***************************************************************************)
RECURSIVE mqtt_read_varint_loop(_, _, _, _, _, _)
mqtt_read_varint_loop(buf, w, i, remaining_mult, lword, lbytes) ==
    IF i = 4 \/ buf = << >>
    THEN [rc |-> MOSQ_ERR_MALFORMED_PACKET, word |-> w, bytes |-> 0, gbuf |-> buf]
    ELSE LET byte == Head(buf)
             sum == lword + (byte % 128) * remaining_mult
         IN  IF byte < 128
             THEN IF lbytes + 1 > 1 /\ byte = 0
                  THEN [rc |-> MOSQ_ERR_MALFORMED_PACKET, word |-> w, bytes |-> 0,
                        gbuf |-> Tail(buf)]
                  ELSE [rc |-> 0, word |-> sum, bytes |-> lbytes + 1, gbuf |-> Tail(buf)]
             ELSE mqtt_read_varint_loop(Tail(buf), w, i + 1, remaining_mult * 128,
                                        sum, lbytes + 1)

mqtt_read_varint_first_byte(buf, w) ==
    [rc |-> 0, word |-> Head(buf) % 128, bytes |-> 1, gbuf |-> Tail(buf)]

mqtt_read_varint(buf, w) == mqtt_read_varint_loop(buf, w, 0, 1, 0, 0)

(***************************************************************************)
(* build_mqtt_packet: the packet is the command byte, the remaining length *)
(* as a variable-length integer, and size more bytes.                      *)
(***************************************************************************)
build_mqtt_packet(p, size) ==
    [p EXCEPT !.len = size + 1 + packet_varint_bytes(size)]

packet_check_oversize(maximum_packet_size, remaining_length) ==
    IF maximum_packet_size = 0 THEN 0
    ELSE IF remaining_length + packet_varint_bytes(remaining_length)
                > maximum_packet_size
         THEN -1
         ELSE 0

property_get_remaining_length(proplen) == proplen + packet_varint_bytes(proplen)

(***************************************************************************)
(* send_connack: in v5 an accepted CONNACK carries RECEIVE_MAXIMUM (three  *)
(* bytes) besides the properties handed in by the caller, which are given  *)
(* by their length and by the value of SERVER_KEEP_ALIVE.                  *)
(***************************************************************************)
send_connack_silent(w, g, ack, reason_code, proplen, server_keep_alive) ==
    [w |-> w, rc |-> 0]

send_connack(w, g, ack, reason_code, proplen, server_keep_alive) ==
    LET p == w.priv[g]
        remaining_length ==
            IF p.protocol_version = "mosq_p_mqtt5"
            THEN 2 + property_get_remaining_length(
                        proplen + (IF reason_code < 128 /\ w.conf.max_inflight_messages > 0
                                   THEN 3 ELSE 0)
                                + (IF reason_code < 128 /\ w.conf.max_packet_size > 0
                                   THEN 5 ELSE 0)
                                + (IF w.conf.max_qos # 2 THEN 2 ELSE 0))
            ELSE 2
    IN  IF packet_check_oversize(p.maximum_packet_size, remaining_length) # 0
        THEN [w |-> w, rc |-> -1]
        ELSE send_packet(w, g,
                 build_mqtt_packet(
                     [Pkt(g, "CONNACK", 0, reason_code, 0, NoTopic, FALSE)
                         EXCEPT !.server_keep_alive =
                                    IF p.protocol_version = "mosq_p_mqtt5"
                                    THEN server_keep_alive ELSE NoProperty],
                     remaining_length))

send_simple_command(w, g, command) ==
    send_packet(w, g, build_mqtt_packet(Pkt(g, command, 0, 0, 0, NoTopic, FALSE), 0))

send_disconnect(w, g, reason_code) ==
    send_packet(w, g,
        build_mqtt_packet(Pkt(g, "DISCONNECT", 0, reason_code, 0, NoTopic, FALSE),
            IF w.priv[g].protocol_version = "mosq_p_mqtt5" /\ reason_code # 0
            THEN 1 ELSE 0))

(***************************************************************************)
(* send__suback: the payload is one byte, the granted QoS (field rc of the *)
(* packet); no property is sent, so that the property list of v5 is its    *)
(* length byte.                                                            *)
(***************************************************************************)
send__suback(w, g, mid, payloadlen, payload) ==
    send_packet(w, g,
        build_mqtt_packet(Pkt(g, "SUBACK", mid, payload, 0, NoTopic, FALSE),
            2 + payloadlen
              + (IF w.priv[g].protocol_version = "mosq_p_mqtt5"
                 THEN property_get_remaining_length(0) ELSE 0)))

send_command_with_mid(w, g, command, mid, reason_code) ==
    send_packet(w, g,
        build_mqtt_packet(Pkt(g, command, mid, reason_code, 0, NoTopic, FALSE),
            2 + (IF w.priv[g].protocol_version = "mosq_p_mqtt5" /\ reason_code # 0
                 THEN 1 ELSE 0)))

(***************************************************************************)
(* Authentication                                                          *)
(***************************************************************************)
mqtt_check_password_accept_all(allow_anonymous, username, password) == 0

mqtt_check_password(allow_anonymous, username, password) ==
    IF allow_anonymous THEN 0
    ELSE IF username = "" THEN -1
    ELSE IF username \notin Users THEN -1
    ELSE IF password = UserPassword[username] THEN 0
    ELSE -1

save_client(w, g) == w

set_client_disconnected(w, g) ==
    LET c == w.priv[g].client
    IN  IF c # ""
        THEN [w EXCEPT !.clients[c].isConnected = FALSE,
                       !.clients[c].gobj = 0,
                       !.clients[c].gobj_bottom = 0,
                       !.priv[g].client = ""]
        ELSE w

sub__clean_session(rec) == [rec EXCEPT !.subscriptions = << >>]

(***************************************************************************)
(* connect_on_authorised: the record is found or created, the connection   *)
(* that the record names is dropped, CONNACK(Accepted) is sent and, when   *)
(* that succeeded, the record and the gobj are marked connected.           *)
(***************************************************************************)
connect_on_authorised(w, g, pkt) ==
    LET cid == w.priv[g].client_id
        v5 == w.priv[g].protocol_version = "mosq_p_mqtt5"
        topic_alias_props == IF v5 THEN 3 ELSE 0
        \* the keepalive asked for is replaced by the server's (v5) or refused
        server_keepalive ==
            w.conf.max_keepalive # 0
              /\ (w.priv[g].keepalive > w.conf.max_keepalive \/ w.priv[g].keepalive = 0)
        server_keepalive_props == IF v5 /\ server_keepalive THEN 3 ELSE 0
        \* the value written in the SERVER_KEEP_ALIVE property of the CONNACK
        server_keep_alive ==
            IF v5 /\ server_keepalive THEN w.priv[g].keepalive ELSE NoProperty
        \* the result r of send_connack decides whether the session is opened
        accepted(r) ==
            IF r.rc = 0
            THEN [w |-> save_client(
                         [r.w EXCEPT !.clients[cid].isConnected = TRUE,
                                     !.clients[cid].gobj = g,
                                     !.clients[cid].gobj_bottom = g,
                                     !.priv[g].in_session = TRUE,
                                     !.priv[g].must_broadcast_on_close = TRUE,
                                     !.priv[g].client = cid,
                                     !.out = Append(@,
                                         EvKw(g, "EV_ON_OPEN",
                                              json_pack("{s:s}", cid)))], g),
                  rc |-> 0]
            ELSE [w |-> r.w, rc |-> r.rc]
        \* the connection named by the record found is dropped
        drop(w1, isConnected, gobj_bottom) ==
            IF isConnected /\ gobj_bottom # 0
            THEN [w1 EXCEPT !.tcp[gobj_bottom] = IF @ = "open" THEN "dropping" ELSE @,
                            !.out = Append(@, Ev(gobj_bottom, "EV_DROP"))]
            ELSE w1
        \* w1 is the world after the drop
        checked(w1) ==
            IF server_keepalive /\ ~v5
            THEN [w |-> send_connack(w1, g, 0, CONNACK_REFUSED_IDENTIFIER_REJECTED,
                                     0, NoProperty).w,
                  rc |-> -1]
            ELSE accepted(send_connack(w1, g, 0, CONNACK_ACCEPTED,
                                       server_keepalive_props + topic_alias_props,
                                       server_keep_alive))
        \* the record takes the server's keepalive when the one asked for is replaced
        kept(rec) ==
            IF server_keepalive THEN [rec EXCEPT !.keepalive = w.conf.max_keepalive]
            ELSE rec
        \* found is the record of the client id, new when there was none
        open(found) ==
            checked(drop([w EXCEPT !.clients[cid] =
                              kept(IF w.priv[g].clean_start THEN sub__clean_session(found)
                                                            ELSE found)],
                         found.isConnected, found.gobj_bottom))
    IN  open(IF w.clients[cid].exists THEN w.clients[cid] ELSE NewRecord)

(***************************************************************************)
(* property_read_all, for the session-expiry-interval properties of a      *)
(* packet: a second property of the identifier is a duplicate              *)
(* (MOSQ_ERR_DUPLICATE_PROPERTY in property_read), and any error of        *)
(* property_read makes property_read_all return no list.                   *)
(***************************************************************************)
property_read_all(session_expiry) ==
    IF Len(session_expiry) > 1 THEN -1 ELSE 0

(***************************************************************************)
(* handle_connect, for a CONNECT whose fixed fields (protocol name, flags, *)
(* will) are well formed.  allow_zero_length_clientid keeps its *)
(* default, so that a zero-length client id is refused and no id is        *)
(* generated.                                                              *)
(***************************************************************************)
handle_connect(w, g, pkt) ==
    IF w.priv[g].in_session THEN [w |-> w, rc |-> -1]
    ELSE
    LET v5 == pkt.protocol_version = "mosq_p_mqtt5"
        \* the fixed fields: version, connect flags, keepalive
        w0 == [w EXCEPT !.priv[g].protocol_version = pkt.protocol_version,
                        !.priv[g].clean_start = pkt.clean_start,
                        !.priv[g].session_expiry_interval =
                            IF ~pkt.clean_start /\ ~v5 THEN UINT32_MAX ELSE 0,
                        !.priv[g].keepalive = pkt.keepalive]
        \* property_process_connect
        w1 == [w0 EXCEPT !.priv[g].session_expiry_interval =
                            IF v5 /\ pkt.session_expiry # << >>
                            THEN pkt.session_expiry[1] ELSE @,
                         !.priv[g].maximum_packet_size =
                            IF v5 /\ pkt.maximum_packet_size # 0
                            THEN pkt.maximum_packet_size ELSE @]
        w2 == [w1 EXCEPT !.priv[g].client_id = pkt.client_id]
        refused(ww, reason) ==
            [w |-> send_connack(ww, g, 0, reason, 0, NoProperty).w, rc |-> -1]
    IN  IF v5 /\ property_read_all(pkt.session_expiry) < 0
        THEN [w |-> w0, rc |-> -1]
        ELSE IF pkt.client_id = ""
              /\ ((pkt.protocol_version = "mosq_p_mqtt311" /\ ~pkt.clean_start)
                    \/ ~allow_zero_length_clientid)
        THEN IF pkt.protocol_version = "mosq_p_mqtt311"
             THEN refused(w1, CONNACK_REFUSED_IDENTIFIER_REJECTED)
             ELSE refused(w1, MQTT_RC_UNSPECIFIED)
        ELSE IF pkt.protocol_version = "mosq_p_mqtt311"
                   /\ pkt.username = "" /\ pkt.password # ""
        THEN [w |-> w2, rc |-> -1]
        ELSE IF pkt.auth_method # ""
        THEN refused(w2, MQTT_RC_BAD_AUTHENTICATION_METHOD)
        ELSE IF mqtt_check_password(w.conf.allow_anonymous, pkt.username, pkt.password) < 0
        THEN IF pkt.protocol_version = "mosq_p_mqtt5"
             THEN refused(w2, MQTT_RC_NOT_AUTHORIZED)
             ELSE refused(w2, CONNACK_REFUSED_NOT_AUTHORIZED)
        ELSE connect_on_authorised(w2, g, pkt)

(***************************************************************************)
(* Delivery queues.  An entry of dl_msgs_out is a mosquitto_client_msg;    *)
(* only the fields the broker reads after the insertion are kept.  An      *)
(* entry of dl_msgs_in owns a mosquitto_msg_store; freed tells that the    *)
(* store has been released while the entry still points to it, and rcvd    *)
(* counts the PUBLISH packets received for the entry.                      *)
(* dl_insert puts the new entry at the head of the list.                   *)
(***************************************************************************)
dl_insert(q, e) == <<e>> \o q

dl_delete_nothing(q, i) == q

dl_delete(q, i) == [j \in 1 .. Len(q) - 1 |-> IF j < i THEN q[j] ELSE q[j + 1]]

dl_find_head(q, mid) == IF q = << >> THEN 0 ELSE 1

dl_find_mid(q, mid) ==
    LET hits == {i \in DOMAIN q : q[i].mid = mid}
    IN  IF hits = {} THEN 0 ELSE CHOOSE i \in hits : \A j \in hits : i <= j

(***************************************************************************)
(* What a read of an entry's store can return.  A store that has been      *)
(* released is dangling: the bytes read through it are whatever the        *)
(* allocator left there: the old contents, the released block with its     *)
(* pointers cleared (GBMEM_FREE clears the pointer it frees), or the       *)
(* contents of a later allocation.                                         *)
(***************************************************************************)
StoreValues ==
    {[qos |-> 2, topic |-> NoTopic, source_mid |-> 0]}
      \cup {[qos |-> 1, topic |-> t, source_mid |-> 0] : t \in Topics}

Views(q) ==
    {v \in [DOMAIN q -> StoreValues \cup {q[i].store : i \in DOMAIN q}] :
        \A i \in DOMAIN q :
            IF q[i].freed THEN v[i] \in StoreValues \cup {q[i].store}
                          ELSE v[i] = q[i].store}

strlen(topic) == IF topic = NoTopic THEN 0 ELSE 2 * Len(topic) - 1

(***************************************************************************)
(* send_publish: oversize check against the receiver's maximum packet      *)
(* size, then the packet goes to the receiver's transport.                 *)
(***************************************************************************)
send_publish(w, h, mid, topic, qos, dup, source_id, via) ==
    LET p == w.priv[h]
        packetlen == 2 + strlen(topic) + 1 + (IF qos > 0 THEN 2 ELSE 0)
                       + (IF p.protocol_version = "mosq_p_mqtt5" THEN 1 ELSE 0)
    IN  IF packet_check_oversize(p.maximum_packet_size, packetlen) # 0
        THEN [w |-> w, rc |-> MOSQ_ERR_OVERSIZE_PACKET]
        ELSE send_packet(w, h,
                 build_mqtt_packet(
                     [Pkt(h, "PUBLISH", mid, 0, qos, topic, dup)
                         EXCEPT !.source_id = source_id, !.via = via],
                     packetlen))

(***************************************************************************)
(* db__ready_for_flight and the insertion in the outgoing queue            *)
(***************************************************************************)
db__ready_for_flight(p, qos) == TRUE

XXX_db__message_insert(w, h, mid, qos, topic, source_id, via) ==
    LET state == CASE qos = 0 -> "mosq_ms_publish_qos0"
                   [] qos = 1 -> "mosq_ms_publish_qos1"
                   [] OTHER   -> "mosq_ms_publish_qos2"
        msg == [mid |-> mid,
                qos |-> IF qos > w.conf.max_qos THEN w.conf.max_qos ELSE qos,
                state |-> state,
                dup |-> FALSE]
        \* the result r of send_publish decides what becomes of the entry
        written(r) ==
            IF qos = 0
            THEN [r.w EXCEPT !.priv[h].dl_msgs_out = dl_delete(@, 1)]
            ELSE IF r.rc = MOSQ_ERR_SUCCESS
            THEN [r.w EXCEPT !.priv[h].dl_msgs_out[1].dup = TRUE,
                             !.priv[h].dl_msgs_out[1].state =
                                 IF qos = 1 THEN "mosq_ms_wait_for_puback"
                                            ELSE "mosq_ms_wait_for_pubrec"]
            ELSE IF r.rc = MOSQ_ERR_OVERSIZE_PACKET
            THEN [r.w EXCEPT !.priv[h].dl_msgs_out = dl_delete(@, 1)]
            ELSE r.w
    IN  written(send_publish([w EXCEPT !.priv[h].dl_msgs_out = dl_insert(@, msg)],
                             h, mid, topic, qos, FALSE, source_id, via))

(***************************************************************************)
(* mosquitto__mid_generate: the successor of the record's last_mid.  The   *)
(* record is saved as it was read: last_mid is not written back.           *)
(***************************************************************************)
mosquitto__mid_generate(rec) ==
    LET last_mid == (rec.last_mid + 1) % 65536
    IN  IF last_mid = 0 THEN 1 ELSE last_mid

(***************************************************************************)
(* msg_qos: the QoS XXX_subs__send gives the delivery, from the QoS of the *)
(* publish and the QoS of the subscription.                                *)
(***************************************************************************)
msg_qos_as_published(qos, client_qos) == qos

msg_qos(qos, client_qos) == IF qos > client_qos THEN client_qos ELSE qos

XXX_subs__send(w, client_id, filter, qos, topic, source_id) ==
    LET rec == w.clients[client_id]
        client_qos == rec.subscriptions[filter].qos
        mid == IF msg_qos(qos, client_qos) > 0 THEN mosquitto__mid_generate(rec) ELSE 0
    IN  IF rec.isConnected /\ rec.gobj # 0
        THEN XXX_db__message_insert(w, rec.gobj, mid, msg_qos(qos, client_qos),
                                    topic, source_id, filter)
        ELSE w

(***************************************************************************)
(* sub_get_subscribers: the subscriptions of the registry whose key        *)
(* compares equal (strcmp) to the topic, in registry order.                *)
(***************************************************************************)
AllSubscriptionKeys ==
    [i \in 1 .. Len(ClientSeq) * Len(FilterSeq) |->
        [client_id |-> ClientSeq[((i - 1) \div Len(FilterSeq)) + 1],
         filter |-> FilterSeq[((i - 1) % Len(FilterSeq)) + 1]]]

topic_compare(filter, topic) == filter = topic

sub_get_subscribers(cl, topic) ==
    SelectSeq(AllSubscriptionKeys,
        LAMBDA k :
            /\ cl[k.client_id].exists
            /\ k.filter \in DOMAIN cl[k.client_id].subscriptions
            /\ (cl[k.client_id].isConnected \/ cl[k.client_id].subscriptions[k.filter].qos > 0)
            /\ topic_compare(k.filter, topic))

RECURSIVE subs_fold(_, _, _, _, _)
subs_fold(w, subs, qos, topic, source_id) ==
    IF subs = << >> THEN w
    ELSE subs_fold(
            XXX_subs__send(w, Head(subs).client_id, Head(subs).filter, qos, topic, source_id),
            Tail(subs), qos, topic, source_id)

XXX_sub__messages_queue_deferred(w, g, subs, topic, qos) ==
    [w EXCEPT !.out = Append(@, Ev(g, "EV_ON_MESSAGE"))]

XXX_sub__messages_queue(w, g, subs, topic, qos) ==
    [subs_fold(w, subs, qos, topic, w.priv[g].client_id)
        EXCEPT !.out = Append(@, Ev(g, "EV_ON_MESSAGE"))]

(***************************************************************************)
(* Incoming QoS 2 messages                                                 *)
(***************************************************************************)
db_message_store_find(v, mid) ==
    LET hits == {i \in DOMAIN v : v[i].source_mid = mid}
    IN  IF hits = {} THEN 0 ELSE CHOOSE i \in hits : \A j \in hits : i <= j

db__message_remove_incoming(q, mid) ==
    LET i == dl_find_mid(q, mid)
    IN  IF i = 0 THEN q
        ELSE IF q[i].qos # 2 THEN q
        ELSE dl_delete(q, i)

XXX_save_message_to_pubrec(w, q, mid, qos, topic) ==
    dl_insert(q, [mid |-> mid,
                  qos |-> IF qos > w.conf.max_qos THEN w.conf.max_qos ELSE qos,
                  store |-> [qos |-> qos, topic |-> topic, source_mid |-> mid],
                  freed |-> FALSE,
                  rcvd |-> 1])

db__message_release_incoming(w, g, mid, v) ==
    LET q == w.priv[g].dl_msgs_in
        i == dl_find_mid(q, mid)
    IN  IF i = 0 THEN [w |-> w, rc |-> MOSQ_ERR_NOT_FOUND]
        ELSE IF v[i].qos # 2 THEN [w |-> w, rc |-> MOSQ_ERR_PROTOCOL]
        ELSE IF v[i].topic = NoTopic
        THEN [w |-> [w EXCEPT !.priv[g].dl_msgs_in = dl_delete(@, i)],
              rc |-> MOSQ_ERR_SUCCESS]
        ELSE [w |-> [XXX_sub__messages_queue(
                         w, g, sub_get_subscribers(w.clients, v[i].topic), v[i].topic, 2)
                        EXCEPT !.priv[g].dl_msgs_in = dl_delete(@, i)],
              rc |-> MOSQ_ERR_SUCCESS]

(***************************************************************************)
(* handle_publish.  v is what the stores of dl_msgs_in read as during the  *)
(* call.  A PUBLISH whose mid is found in dl_msgs_in with the same content *)
(* is a duplicate: it is answered again, and the store that the call ends  *)
(* by releasing is then the one the queued entry points to.                *)
(***************************************************************************)
handle_publish(w, g, pkt, v) ==
    IF pkt.dup /\ pkt.qos = 0 THEN [w |-> w, rc |-> MOSQ_ERR_MALFORMED_PACKET]
    ELSE IF pkt.qos > w.conf.max_qos THEN [w |-> w, rc |-> MOSQ_ERR_QOS_NOT_SUPPORTED]
    ELSE
    LET p == w.priv[g]
        has_subscribers == FALSE
        acked(a) == [w |-> a.w, rc |-> IF a.rc < 0 THEN MOSQ_ERR_NOMEM ELSE 0]
        \* db_free_msg_store(stored) at the end of the call
        released(r, stored) ==
            IF stored = 0 THEN r
            ELSE [w |-> [r.w EXCEPT !.priv[g].dl_msgs_in[stored].freed = TRUE,
                                    !.priv[g].dl_msgs_in[stored].rcvd =
                                        IF @ < 2 THEN @ + 1 ELSE @],
                  rc |-> r.rc]
        \* the switch on stored->qos
        process(w1, stored, dup, sqos, stopic) ==
            IF stored = 0 /\ pkt.qos # 0 /\ ~db__ready_for_flight(p, pkt.qos)
            THEN [w |-> w1, rc |-> MOSQ_ERR_NOMEM]
            ELSE released(
                  CASE sqos = 0 ->
                        [w |-> XXX_sub__messages_queue(
                                   w1, g, sub_get_subscribers(w1.clients, stopic), stopic, sqos),
                         rc |-> 0]
                    [] sqos = 1 ->
                        acked(send_command_with_mid(
                            XXX_sub__messages_queue(
                                w1, g, sub_get_subscribers(w1.clients, stopic), stopic, sqos),
                            g, "PUBACK", pkt.mid,
                            IF has_subscribers \/ p.protocol_version # "mosq_p_mqtt5"
                            THEN 0 ELSE MQTT_RC_NO_MATCHING_SUBSCRIBERS))
                    [] OTHER ->
                        acked(send_command_with_mid(
                            IF dup = 0
                            THEN [w1 EXCEPT !.priv[g].dl_msgs_in =
                                      XXX_save_message_to_pubrec(w1, @, pkt.mid, sqos, stopic)]
                            ELSE w1,
                            g, "PUBREC", pkt.mid, 0)),
                  stored)
        \* stored is the store found, none when the mid is new or reused
        select(q1, stored) ==
            process([w EXCEPT !.priv[g].dl_msgs_in = q1],
                    stored,
                    IF stored = 0 THEN 0 ELSE 1,
                    IF stored = 0 THEN pkt.qos ELSE v[stored].qos,
                    IF stored = 0 THEN pkt.topic ELSE v[stored].topic)
        lookup(found, reused) ==
            select(IF reused THEN db__message_remove_incoming(p.dl_msgs_in, pkt.mid)
                             ELSE p.dl_msgs_in,
                   IF reused THEN 0 ELSE found)
        find(found) ==
            lookup(found,
                   found # 0 /\ pkt.mid # 0
                     /\ (v[found].qos # pkt.qos \/ v[found].topic # pkt.topic))
    IN  find(IF pkt.qos > 0 THEN db_message_store_find(v, pkt.mid) ELSE 0)

handle__pubrel(w, g, pkt, v) ==
    LET released(r) ==
            IF r.rc # MOSQ_ERR_NOT_FOUND /\ r.rc # MOSQ_ERR_SUCCESS THEN r
            ELSE send_command_with_mid(r.w, g, "PUBCOMP", pkt.mid, 0)
    IN  released(db__message_release_incoming(w, g, pkt.mid, v))

(***************************************************************************)
(* Outgoing QoS 1 and QoS 2 messages                                       *)
(***************************************************************************)
db__message_update_outgoing(q, mid, state, qos) ==
    LET i == dl_find_mid(q, mid)
    IN  IF i = 0 THEN [q |-> q, rc |-> MOSQ_ERR_NOT_FOUND]
        ELSE IF q[i].qos # qos THEN [q |-> q, rc |-> MOSQ_ERR_PROTOCOL]
        ELSE [q |-> [q EXCEPT ![i].state = state], rc |-> MOSQ_ERR_SUCCESS]

db__message_delete_outgoing_any_state(q, mid, expect_state, qos) ==
    LET i == dl_find_mid(q, mid)
    IN  IF i = 0 THEN [q |-> q, rc |-> 0]
        ELSE IF q[i].qos # qos THEN [q |-> q, rc |-> MOSQ_ERR_PROTOCOL]
        ELSE [q |-> dl_delete(q, i), rc |-> 0]

db__message_delete_outgoing(q, mid, expect_state, qos) ==
    LET i == dl_find_mid(q, mid)
    IN  IF i = 0 THEN [q |-> q, rc |-> 0]
        ELSE IF q[i].qos # qos THEN [q |-> q, rc |-> MOSQ_ERR_PROTOCOL]
        ELSE IF qos = 2 /\ q[i].state # expect_state THEN [q |-> q, rc |-> MOSQ_ERR_PROTOCOL]
        ELSE [q |-> dl_delete(q, i), rc |-> 0]

handle_pubackcomp(w, g, pkt) ==
    LET qos == IF pkt.cmd = "PUBACK" THEN 1 ELSE 2
        deleted(r) ==
            [w |-> [w EXCEPT !.priv[g].dl_msgs_out = r.q],
             rc |-> IF r.rc = MOSQ_ERR_NOT_FOUND THEN MOSQ_ERR_SUCCESS ELSE r.rc]
    IN  IF pkt.mid = 0 THEN [w |-> w, rc |-> MOSQ_ERR_PROTOCOL]
        ELSE deleted(db__message_delete_outgoing(
                         w.priv[g].dl_msgs_out, pkt.mid, "mosq_ms_wait_for_pubcomp", qos))

handle__pubrec(w, g, pkt) ==
    LET updated(r) ==
            IF r.rc # MOSQ_ERR_NOT_FOUND /\ r.rc # MOSQ_ERR_SUCCESS
            THEN [w |-> [w EXCEPT !.priv[g].dl_msgs_out = r.q], rc |-> r.rc]
            ELSE send_command_with_mid([w EXCEPT !.priv[g].dl_msgs_out = r.q],
                                       g, "PUBREL", pkt.mid, 0)
        deleted(r) == [w |-> [w EXCEPT !.priv[g].dl_msgs_out = r.q], rc |-> r.rc]
    IN  IF pkt.reason_code < 128
        THEN updated(db__message_update_outgoing(
                         w.priv[g].dl_msgs_out, pkt.mid, "mosq_ms_wait_for_pubcomp", 2))
        ELSE deleted(db__message_delete_outgoing(
                         w.priv[g].dl_msgs_out, pkt.mid, "mosq_ms_wait_for_pubrec", 2))

(***************************************************************************)
(* Subscriptions                                                           *)
(***************************************************************************)
add_subscription(w, g, sub, qos, no_local) ==
    LET cid == w.priv[g].client_id
        rec == w.clients[cid]
    IN  IF cid \notin ClientIds \/ ~rec.exists THEN [w |-> w, rc |-> -1]
        ELSE IF sub \in DOMAIN rec.subscriptions
        THEN [w |-> [w EXCEPT !.clients[cid].subscriptions[sub].qos = qos],
              rc |-> MOSQ_ERR_SUB_EXISTS]
        ELSE [w |-> [w EXCEPT !.clients[cid].subscriptions =
                          @ @@ (sub :> [qos |-> qos, no_local |-> no_local])],
              rc |-> MOSQ_ERR_SUCCESS]

handle__subscribe(w, g, pkt) ==
    LET qos == IF pkt.qos > w.conf.max_qos THEN w.conf.max_qos ELSE pkt.qos
        acked(a) ==
            [w |-> [save_client(a.w, g) EXCEPT !.out = Append(@, Ev(g, "EV_ON_MESSAGE"))],
             rc |-> IF a.rc # 0 THEN MOSQ_ERR_NOMEM ELSE 0]
        added(r) ==
            IF r.rc < 0 THEN r
            ELSE acked(send__suback(r.w, g, pkt.mid, 1, qos))
    IN  added(add_subscription(w, g, pkt.topic, qos, pkt.no_local))

handle_pingreq(w, g) ==
    IF ~w.priv[g].in_session THEN [w |-> w, rc |-> -1]
    ELSE send_simple_command(w, g, "PINGRESP")

(***************************************************************************)
(* The value of a uint32 property read into an int.  2^32 - 1 (UINT32_MAX  *)
(* in the model) reads as -1; the other values of the model are below 2^31 *)
(* and read as themselves.                                                 *)
(***************************************************************************)
int_of_uint32(value) == IF value = UINT32_MAX THEN -1 ELSE value

(***************************************************************************)
(* handle_disconnect: a v5 DISCONNECT may carry the property               *)
(* session-expiry-interval; -1 is the value of a property that is absent.  *)
(* Bytes left in the packet of an older protocol are a protocol error.     *)
(***************************************************************************)
handle_disconnect(w, g, pkt) ==
    LET p == w.priv[g]
        properties == p.protocol_version = "mosq_p_mqtt5" /\ pkt.session_expiry # << >>
        session_expiry_interval ==
            IF properties THEN int_of_uint32(pkt.session_expiry[1]) ELSE -1
    IN  IF properties /\ property_read_all(pkt.session_expiry) < 0
        THEN [w |-> w, rc |-> property_read_all(pkt.session_expiry)]
        ELSE IF session_expiry_interval # -1
                  /\ p.session_expiry_interval = 0 /\ session_expiry_interval # 0
        THEN [w |-> w, rc |-> MOSQ_ERR_PROTOCOL]
        ELSE IF ~properties /\ pkt.session_expiry # << >>
        THEN [w |-> w, rc |-> MOSQ_ERR_PROTOCOL]
        ELSE [w |-> do_disconnect(
                        [w EXCEPT !.priv[g].session_expiry_interval =
                                      IF session_expiry_interval # -1
                                      THEN session_expiry_interval ELSE @], g),
              rc |-> 0]

(***************************************************************************)
(* Frame header and dispatch                                               *)
(***************************************************************************)
decode_head_any_command(in_session, command) == 0

decode_head(in_session, command) ==
    IF ~in_session /\ command # "CONNECT" THEN -1 ELSE 0

(***************************************************************************)
(* framehead_consume: the header is decoded, the remaining length          *)
(* (frame_length) is read, and the length is checked for CONNECT and for   *)
(* the pings; the result is the number of bytes consumed, or an error.     *)
(***************************************************************************)
framehead_consume(p, pkt) ==
    IF decode_head(p.in_session, pkt.cmd) < 0 THEN -1
    ELSE IF pkt.cmd = "CONNECT" /\ pkt.frame_length > 100000 THEN -1
    ELSE IF pkt.cmd = "PINGREQ" /\ pkt.frame_length # 0 THEN -1
    ELSE 1 + packet_varint_bytes(pkt.frame_length)

frame_completed(w, g, pkt, v) ==
    LET reason(rc) == CASE rc = MOSQ_ERR_PROTOCOL         -> MQTT_RC_PROTOCOL_ERROR
                        [] rc = MOSQ_ERR_MALFORMED_PACKET -> MQTT_RC_MALFORMED_PACKET
                        [] rc = MOSQ_ERR_QOS_NOT_SUPPORTED -> MQTT_RC_QOS_NOT_SUPPORTED
                        [] rc = MOSQ_ERR_NOMEM            -> MQTT_RC_UNSPECIFIED
                        [] OTHER                          -> MQTT_RC_PROTOCOL_ERROR
        \* r is the result of the command's handler
        handled(r) ==
            IF pkt.cmd # "CONNECT" /\ r.w.priv[g].protocol_version = "mosq_p_mqtt5"
                  /\ r.rc < 0
            THEN [w |-> start_wait_frame_header(
                            send_disconnect(r.w, g, reason(r.rc)).w, g),
                  rc |-> r.rc]
            ELSE [w |-> start_wait_frame_header(r.w, g), rc |-> r.rc]
    IN  handled(CASE pkt.cmd = "CONNECT"    -> handle_connect(w, g, pkt)
                  [] pkt.cmd = "PUBLISH"    -> handle_publish(w, g, pkt, v)
                  [] pkt.cmd = "PUBREL"     -> handle__pubrel(w, g, pkt, v)
                  [] pkt.cmd = "PUBREC"     -> handle__pubrec(w, g, pkt)
                  [] pkt.cmd = "PUBACK"     -> handle_pubackcomp(w, g, pkt)
                  [] pkt.cmd = "PUBCOMP"    -> handle_pubackcomp(w, g, pkt)
                  [] pkt.cmd = "SUBSCRIBE"  -> handle__subscribe(w, g, pkt)
                  [] pkt.cmd = "PINGREQ"    -> handle_pingreq(w, g)
                  [] pkt.cmd = "DISCONNECT" -> handle_disconnect(w, g, pkt))

(***************************************************************************)
(* The packets the peers send.  One record shape serves every command;     *)
(* the fields a command does not carry keep the values of NoPkt.           *)
(***************************************************************************)
NoPkt ==
    [cmd |-> "", protocol_version |-> "mosq_p_invalid", client_id |-> "",
     clean_start |-> FALSE, keepalive |-> 0, session_expiry |-> << >>,
     username |-> "", password |-> "", auth_method |-> "",
     maximum_packet_size |-> 0, qos |-> 0, mid |-> 0, topic |-> NoTopic,
     dup |-> FALSE, no_local |-> FALSE, reason_code |-> 0, frame_length |-> 0]

Credentials == {<<"", "">>, <<"", "p">>, <<"u", "p">>, <<"u", "q">>, <<"x", "p">>}

V5ConnectOptions == {<<"", 0>>, <<"m", 0>>, <<"", 3>>, <<"", 4>>}

(***************************************************************************)
(* CONNECT packets.  clean_start = 0 is sent with the credentials that can *)
(* be accepted, and the v5 options (an authentication method, a maximum    *)
(* packet size, session-expiry-interval properties) by one client.         *)
(***************************************************************************)
AcceptableCredentials == {<<"", "">>, <<"u", "p">>}

SessionExpiryProperties == {<<1>>, <<1, 1>>}

ConnectPackets ==
    {[NoPkt EXCEPT !.cmd = "CONNECT", !.protocol_version = ver,
                   !.client_id = cid, !.clean_start = cs,
                   !.keepalive = KeepAliveSecs,
                   !.username = cr[1], !.password = cr[2]] :
        ver \in ProtocolVersions, cid \in ClientIds \cup {""}, cs \in {TRUE},
        cr \in Credentials}
      \cup
    {[NoPkt EXCEPT !.cmd = "CONNECT", !.protocol_version = ver,
                   !.client_id = cid, !.clean_start = FALSE,
                   !.keepalive = KeepAliveSecs,
                   !.username = cr[1], !.password = cr[2]] :
        ver \in ProtocolVersions, cid \in {ClientSeq[1], ""},
        cr \in AcceptableCredentials}
      \cup
    {[NoPkt EXCEPT !.cmd = "CONNECT", !.protocol_version = "mosq_p_mqtt5",
                   !.client_id = ClientSeq[1], !.clean_start = TRUE,
                   !.keepalive = KeepAliveSecs,
                   !.username = cr[1], !.password = cr[2],
                   !.auth_method = o[1], !.maximum_packet_size = o[2]] :
        cr \in AcceptableCredentials, o \in V5ConnectOptions \ {<<"", 0>>}}
      \cup
    {[NoPkt EXCEPT !.cmd = "CONNECT", !.protocol_version = "mosq_p_mqtt5",
                   !.client_id = ClientSeq[1], !.clean_start = TRUE,
                   !.keepalive = KeepAliveSecs,
                   !.username = "u", !.password = "p",
                   !.session_expiry = se] :
        se \in SessionExpiryProperties}

PlainConnectPackets ==
    {c \in ConnectPackets :
        /\ c.client_id # ""
        /\ c.username = "" /\ c.password = ""
        /\ c.auth_method = "" /\ c.maximum_packet_size = 0
        /\ c.session_expiry = << >>}

PublishPackets ==
    {[NoPkt EXCEPT !.cmd = "PUBLISH", !.qos = q, !.mid = IF q = 0 THEN 0 ELSE m,
                   !.topic = t] : q \in 0 .. 2, m \in Mids, t \in Topics}

AckPackets ==
    {[NoPkt EXCEPT !.cmd = c, !.mid = m] :
        c \in {"PUBACK", "PUBREL", "PUBCOMP"}, m \in Mids}
      \cup {[NoPkt EXCEPT !.cmd = "PUBREC", !.mid = m, !.reason_code = rc] :
                m \in Mids, rc \in {0, MQTT_RC_UNSPECIFIED}}

SubscribePackets ==
    {[NoPkt EXCEPT !.cmd = "SUBSCRIBE", !.mid = 1, !.topic = f,
                   !.qos = q, !.no_local = nl] :
        f \in Filters, q \in {0, 2}, nl \in BOOLEAN}

OtherPackets == {[NoPkt EXCEPT !.cmd = c] : c \in {"PINGREQ", "DISCONNECT"}}

(***************************************************************************)
(* One packet of every command, for the connections that have no session.  *)
(***************************************************************************)
ProbePackets ==
    {pkt \in PublishPackets : pkt.qos = 0}
      \cup {pkt \in AckPackets : pkt.mid = 1 /\ pkt.reason_code = 0}
      \cup {pkt \in SubscribePackets :
                pkt.topic = <<"a">> /\ pkt.qos = 2 /\ ~pkt.no_local}
      \cup OtherPackets

(***************************************************************************)
(* The packets of the specifications       (see the end of the module)     *)
(***************************************************************************)
DeliveryPackets(g) ==
    {c \in PlainConnectPackets :
        /\ c.clean_start
        /\ c.protocol_version = "mosq_p_mqtt5"
        /\ c.client_id = ClientSeq[((g - 1) % Len(ClientSeq)) + 1]}
      \cup {pkt \in PublishPackets : pkt.qos = 2 /\ pkt.mid = 1}
      \cup {pkt \in AckPackets : pkt.cmd # "PUBACK" /\ pkt.mid = 1}
      \cup {pkt \in SubscribePackets :
                pkt.topic = <<"a">> /\ pkt.qos = 2 /\ ~pkt.no_local}

InflightPackets(g) ==
    {c \in PlainConnectPackets :
        /\ c.clean_start
        /\ c.client_id = ClientSeq[((g - 1) % Len(ClientSeq)) + 1]}
      \cup {pkt \in PublishPackets : pkt.qos = 2}
      \cup {pkt \in AckPackets : pkt.cmd = "PUBREL"}

RouterPackets(g) ==
    {c \in PlainConnectPackets : c.clean_start}
      \cup {pkt \in PublishPackets : pkt.qos = 0 \/ (pkt.qos = 1 /\ pkt.mid = 1)}
      \cup {pkt \in SubscribePackets : pkt.qos = 0}

HandshakePackets(g) ==
    {c \in ConnectPackets : c.clean_start /\ c.session_expiry = << >>}
      \cup ProbePackets

(***************************************************************************)
(* Sessions of one client id, clean or persistent (v3.1.1), that publish   *)
(* at QoS 1 to their own subscription and acknowledge what they receive.   *)
(***************************************************************************)
SessionPackets(g) ==
    {c \in ConnectPackets :
        /\ c.protocol_version = "mosq_p_mqtt311"
        /\ c.client_id = ClientSeq[1]
        /\ c.username = "" /\ c.password = ""
        /\ c.auth_method = "" /\ c.maximum_packet_size = 0
        /\ c.session_expiry = << >>}
      \cup {pkt \in PublishPackets : pkt.qos = 1 /\ pkt.mid = 1}
      \cup {pkt \in AckPackets : pkt.cmd = "PUBACK"}
      \cup {pkt \in SubscribePackets :
                pkt.topic = <<"a">> /\ pkt.qos = 2 /\ ~pkt.no_local}

(***************************************************************************)
(* Publishes of every QoS by the client of the first connection, with the  *)
(* PUBREL that releases a QoS 2 publish, and subscriptions of every QoS by *)
(* the client of the second; both are v3.1.1 clients.                      *)
(***************************************************************************)
QosPackets(g) ==
    {c \in PlainConnectPackets :
        /\ c.clean_start
        /\ c.protocol_version = "mosq_p_mqtt311"
        /\ c.client_id = ClientSeq[((g - 1) % Len(ClientSeq)) + 1]}
      \cup (IF g = 1
            THEN {pkt \in PublishPackets : pkt.mid \in {0, 1}}
                   \cup {pkt \in AckPackets : pkt.cmd = "PUBREL" /\ pkt.mid = 1}
            ELSE {[NoPkt EXCEPT !.cmd = "SUBSCRIBE", !.mid = 1, !.topic = <<"a">>,
                                !.qos = q] : q \in 0 .. 2})

(***************************************************************************)
(* The CONNECTs that ask for a persistent session or carry                 *)
(* session-expiry-interval properties, PINGREQ, and the DISCONNECTs with   *)
(* and without a session-expiry-interval property.                         *)
(***************************************************************************)
DisconnectPackets ==
    {[NoPkt EXCEPT !.cmd = "DISCONNECT", !.session_expiry = e] :
        e \in {<< >>, <<0>>, <<1>>, <<UINT32_MAX>>}}

RefusalPackets(g) ==
    {c \in ConnectPackets : ~c.clean_start \/ c.session_expiry # << >>}
      \cup {pkt \in OtherPackets : pkt.cmd = "PINGREQ"}
      \cup DisconnectPackets

(***************************************************************************)
(* CONNECTs with and without a keepalive, one client id per connection,    *)
(* and PINGREQ.                                                            *)
(***************************************************************************)
KeepalivePackets(g) ==
    {[c EXCEPT !.keepalive = k] :
        c \in {c \in PlainConnectPackets :
                  /\ c.clean_start
                  /\ c.client_id = ClientSeq[((g - 1) % Len(ClientSeq)) + 1]},
        k \in {0, KeepAliveSecs}}
      \cup {pkt \in OtherPackets : pkt.cmd = "PINGREQ"}

(***************************************************************************)
(* CONNECTs of both protocol versions whose keepalive is zero, below,      *)
(* equal to and above the smallest max_keepalive, and PINGREQ.             *)
(***************************************************************************)
ServerKeepalivePackets(g) ==
    {[c EXCEPT !.keepalive = k] :
        c \in {c \in PlainConnectPackets :
                  /\ c.clean_start
                  /\ c.client_id = ClientSeq[((g - 1) % Len(ClientSeq)) + 1]},
        k \in 0 .. MaxKeepAlive + 1}
      \cup {pkt \in OtherPackets : pkt.cmd = "PINGREQ"}

(***************************************************************************)
(* Frames of several remaining lengths: CONNECTs of 12 and of 100001       *)
(* bytes, QoS 0 PUBLISHes below and above MaxPacketSizeConf, PINGREQs of 0 *)
(* and of 2 bytes, and the DISCONNECT.                                     *)
(***************************************************************************)
SizedPackets(g) ==
    {[c EXCEPT !.frame_length = n] :
        c \in {c \in PlainConnectPackets :
                  /\ c.clean_start
                  /\ c.client_id = ClientSeq[((g - 1) % Len(ClientSeq)) + 1]},
        n \in {12, 100001}}
      \cup {[pkt EXCEPT !.frame_length = n] :
                pkt \in {pkt \in PublishPackets : pkt.qos = 0},
                n \in {3, MaxPacketSizeConf + 1}}
      \cup {[pkt EXCEPT !.frame_length = n] :
                pkt \in {pkt \in OtherPackets : pkt.cmd = "PINGREQ"}, n \in {0, 2}}
      \cup {pkt \in OtherPackets : pkt.cmd = "DISCONNECT"}

(***************************************************************************)
(* Buffers of one to MaxBufferPackets packets: the clean CONNECT of the    *)
(* connection's client (MQTT v5 on the first connection, v3.1.1 on the     *)
(* others), a subscription and a publish at QoS 0, and the PUBACK of mid   *)
(* 0, which is a protocol error.                                           *)
(***************************************************************************)
BufferPackets(g) ==
    {c \in PlainConnectPackets :
        /\ c.clean_start
        /\ c.protocol_version = (IF g = 1 THEN "mosq_p_mqtt5" ELSE "mosq_p_mqtt311")
        /\ c.client_id = ClientSeq[((g - 1) % Len(ClientSeq)) + 1]}
      \cup {[NoPkt EXCEPT !.cmd = "SUBSCRIBE", !.mid = 1, !.topic = <<"a">>],
            [NoPkt EXCEPT !.cmd = "PUBLISH", !.topic = <<"a">>],
            [NoPkt EXCEPT !.cmd = "PUBACK"]}

Buffers(g) ==
    UNION {[1 .. n -> BufferPackets(g)] : n \in 1 .. MaxBufferPackets}

(***************************************************************************)
(* A persistent session and a publisher: the first connection is the       *)
(* first client's, always with clean_start = 0 (v3.1.1), subscribing at    *)
(* QoS 1 or 2 and acknowledging; the second is the second client's, which  *)
(* publishes at QoS 0 and 1.                                               *)
(***************************************************************************)
PersistentPackets(g) ==
    IF g = 1
    THEN {c \in ConnectPackets :
              /\ c.protocol_version = "mosq_p_mqtt311"
              /\ c.client_id = ClientSeq[1] /\ ~c.clean_start
              /\ c.username = "" /\ c.password = ""}
           \cup {[NoPkt EXCEPT !.cmd = "SUBSCRIBE", !.mid = 1, !.topic = <<"a">>,
                               !.qos = q] : q \in 1 .. 2}
           \cup {pkt \in AckPackets : pkt.cmd = "PUBACK" /\ pkt.mid = 1}
    ELSE {c \in PlainConnectPackets :
              /\ c.clean_start
              /\ c.protocol_version = "mosq_p_mqtt311"
              /\ c.client_id = ClientSeq[2]}
           \cup {pkt \in PublishPackets : pkt.qos = 0 \/ (pkt.qos = 1 /\ pkt.mid = 1)}

(***************************************************************************)
(* A message id that is used again: the first client publishes at QoS 2    *)
(* with mid 1 on "a" and on a second topic, "b", and releases mid 1; the   *)
(* second client subscribes to "a" at QoS 0.                               *)
(***************************************************************************)
ReusePackets(g) ==
    {c \in PlainConnectPackets :
        /\ c.clean_start
        /\ c.protocol_version = "mosq_p_mqtt311"
        /\ c.client_id = ClientSeq[((g - 1) % Len(ClientSeq)) + 1]}
      \cup (IF g = 1
            THEN {[NoPkt EXCEPT !.cmd = "PUBLISH", !.qos = 2, !.mid = 1, !.topic = t] :
                      t \in {<<"a">>, <<"b">>}}
                   \cup {pkt \in AckPackets : pkt.cmd = "PUBREL" /\ pkt.mid = 1}
            ELSE {[NoPkt EXCEPT !.cmd = "SUBSCRIBE", !.mid = 1, !.topic = <<"a">>]})

(***************************************************************************)
(* Acknowledgements of every kind: the first client publishes at QoS 1 and *)
(* 2 and releases its QoS 2 publish; the second subscribes at QoS 2 and    *)
(* answers with PUBACK, PUBREC and PUBCOMP (v3.1.1).                       *)
(***************************************************************************)
AckingPackets(g) ==
    {c \in PlainConnectPackets :
        /\ c.clean_start
        /\ c.protocol_version = "mosq_p_mqtt311"
        /\ c.client_id = ClientSeq[((g - 1) % Len(ClientSeq)) + 1]}
      \cup (IF g = 1
            THEN {pkt \in PublishPackets : pkt.qos > 0 /\ pkt.mid = 1}
                   \cup {pkt \in AckPackets : pkt.cmd = "PUBREL" /\ pkt.mid = 1}
            ELSE {pkt \in SubscribePackets :
                      pkt.topic = <<"a">> /\ pkt.qos = 2 /\ ~pkt.no_local}
                   \cup {pkt \in AckPackets :
                             /\ pkt.cmd # "PUBREL" /\ pkt.mid = 1 /\ pkt.reason_code = 0})

(***************************************************************************)
(* Options that only MQTT v5 can encode are sent by v5 sessions only.      *)
(***************************************************************************)
Encodable(p, pkt) ==
    /\ pkt.no_local => p.protocol_version = "mosq_p_mqtt5"
    /\ pkt.reason_code # 0 => p.protocol_version = "mosq_p_mqtt5"

(***************************************************************************)
(* The state machine                                                       *)
(***************************************************************************)
World ==
    [conf |-> conf, tcp |-> tcp, priv |-> priv, clients |-> clients,
     timer |-> timer, out |-> << >>]

SubscriptionCount(cl) ==
    LET n[i \in 0 .. Len(ClientSeq)] ==
            IF i = 0 THEN 0
            ELSE n[i - 1] + Cardinality(DOMAIN cl[ClientSeq[i]].subscriptions)
    IN  n[Len(ClientSeq)]

WithinBounds(w) ==
    /\ \A g \in Gobjs : Len(w.priv[g].dl_msgs_out) <= MaxOutMsgs
    /\ \A g \in Gobjs : Len(w.priv[g].dl_msgs_in) <= MaxInMsgs
    /\ SubscriptionCount(w.clients) <= MaxSubscriptions

Handled(w, g, ev, pkt, rc, dispatched) ==
    /\ WithinBounds(w)
    /\ tcp' = w.tcp
    /\ priv' = w.priv
    /\ clients' = w.clients
    /\ timer' = w.timer
    /\ idle' = IF ev = "EV_TIMEOUT" THEN idle ELSE [idle EXCEPT ![g] = 0]
    /\ out' = w.out
    /\ last' = [ev |-> ev, gobj |-> g, cmd |-> pkt.cmd, rc |-> rc,
                dispatched |-> dispatched]
    /\ UNCHANGED conf

Commit(w, g, ev, pkt, rc, dispatched) ==
    /\ Handled(w, g, ev, pkt, rc, dispatched)
    /\ UNCHANGED <<uint32, gbuf>>

InitLast ==
    [ev |-> "", gobj |-> 0, cmd |-> "", rc |-> 0, dispatched |-> FALSE]

Init ==
    /\ conf \in [allow_anonymous : {TRUE}, max_inflight_messages : InflightLimits,
                 max_qos : {max_qos}, max_keepalive : {max_keepalive},
                 max_packet_size : {max_packet_size}]
    /\ tcp = [g \in Gobjs |-> "closed"]
    /\ priv = [g \in Gobjs |-> InitPriv]
    /\ clients = [c \in ClientIds |-> NoRecord]
    /\ timer = [g \in Gobjs |-> NoTimeout]
    /\ idle = [g \in Gobjs |-> 0]
    /\ out = << >>
    /\ last = InitLast
    /\ uint32 = 0
    /\ gbuf = << >>

InitConnect ==
    /\ conf \in [allow_anonymous : BOOLEAN, max_inflight_messages : InflightLimits,
                 max_qos : {max_qos}, max_keepalive : {max_keepalive},
                 max_packet_size : {max_packet_size}]
    /\ tcp = [g \in Gobjs |-> "closed"]
    /\ priv = [g \in Gobjs |-> InitPriv]
    /\ clients = [c \in ClientIds |-> NoRecord]
    /\ timer = [g \in Gobjs |-> NoTimeout]
    /\ idle = [g \in Gobjs |-> 0]
    /\ out = << >>
    /\ last = InitLast
    /\ uint32 = 0
    /\ gbuf = << >>

InitQos ==
    /\ conf \in [allow_anonymous : {TRUE}, max_inflight_messages : InflightLimits,
                 max_qos : 0 .. 2, max_keepalive : {max_keepalive},
                 max_packet_size : {max_packet_size}]
    /\ tcp = [g \in Gobjs |-> "closed"]
    /\ priv = [g \in Gobjs |-> InitPriv]
    /\ clients = [c \in ClientIds |-> NoRecord]
    /\ timer = [g \in Gobjs |-> NoTimeout]
    /\ idle = [g \in Gobjs |-> 0]
    /\ out = << >>
    /\ last = InitLast
    /\ uint32 = 0
    /\ gbuf = << >>

InitServerKeepalive ==
    /\ conf \in [allow_anonymous : {TRUE}, max_inflight_messages : InflightLimits,
                 max_qos : {max_qos},
                 max_keepalive : {0, MaxKeepAlive, max_keepalive},
                 max_packet_size : {max_packet_size}]
    /\ tcp = [g \in Gobjs |-> "closed"]
    /\ priv = [g \in Gobjs |-> InitPriv]
    /\ clients = [c \in ClientIds |-> NoRecord]
    /\ timer = [g \in Gobjs |-> NoTimeout]
    /\ idle = [g \in Gobjs |-> 0]
    /\ out = << >>
    /\ last = InitLast
    /\ uint32 = 0
    /\ gbuf = << >>

InitSized ==
    /\ conf \in [allow_anonymous : {TRUE}, max_inflight_messages : InflightLimits,
                 max_qos : {max_qos}, max_keepalive : {max_keepalive},
                 max_packet_size : {max_packet_size, MaxPacketSizeConf}]
    /\ tcp = [g \in Gobjs |-> "closed"]
    /\ priv = [g \in Gobjs |-> InitPriv]
    /\ clients = [c \in ClientIds |-> NoRecord]
    /\ timer = [g \in Gobjs |-> NoTimeout]
    /\ idle = [g \in Gobjs |-> 0]
    /\ out = << >>
    /\ last = InitLast
    /\ uint32 = 0
    /\ gbuf = << >>

(***************************************************************************)
(* A session of the first client, subscribed to "a" at QoS 1, whose record *)
(* holds a persisted last_mid: a value near 0 or near the end of the       *)
(* range of uint16_t.                                                      *)
(***************************************************************************)
PersistedMids == (0 .. MaxMidDelta) \cup ((65535 - MaxMidDelta) .. 65535)

InitMid ==
    /\ conf \in [allow_anonymous : {TRUE}, max_inflight_messages : InflightLimits,
                 max_qos : {max_qos}, max_keepalive : {max_keepalive},
                 max_packet_size : {max_packet_size}]
    /\ tcp = [g \in Gobjs |-> IF g = 1 THEN "open" ELSE "closed"]
    /\ priv = [g \in Gobjs |->
                  IF g = 1
                  THEN [InitPriv EXCEPT !.in_session = TRUE,
                                        !.client_id = ClientSeq[1],
                                        !.protocol_version = "mosq_p_mqtt311",
                                        !.clean_start = TRUE,
                                        !.keepalive = KeepAliveSecs,
                                        !.client = ClientSeq[1],
                                        !.must_broadcast_on_close = TRUE]
                  ELSE InitPriv]
    /\ \E m \in PersistedMids :
          clients = [c \in ClientIds |->
                        IF c = ClientSeq[1]
                        THEN [NewRecord EXCEPT
                                 !.isConnected = TRUE, !.gobj = 1, !.gobj_bottom = 1,
                                 !.last_mid = m,
                                 !.subscriptions =
                                     (<<"a">> :> [qos |-> 1, no_local |-> FALSE])]
                        ELSE NoRecord]
    /\ timer = [g \in Gobjs |-> IF g = 1 THEN pingT ELSE NoTimeout]
    /\ idle = [g \in Gobjs |-> 0]
    /\ out = << >>
    /\ last = InitLast
    /\ uint32 = 0
    /\ gbuf = << >>

(***************************************************************************)
(* A message of QoS 1 on "a" is sent to the subscription of the first      *)
(* client: XXX_subs__send generates the mid of the delivery.               *)
(***************************************************************************)
subs__send_qos1 ==
    Commit(XXX_subs__send(World, ClientSeq[1], <<"a">>, 1, <<"a">>, ""),
           1, "XXX_subs__send", NoPkt, 0, FALSE)

(***************************************************************************)
(* The words written as variable byte integers: the small ones, the words  *)
(* around each power of 128, where the length of the encoding changes,     *)
(* words in between, and words above the range of four bytes.              *)
(***************************************************************************)
VarintMax == 268435455

VarintWords ==
    (0 .. 20)
      \cup {b + d : b \in {128, 16384, 2097152, VarintMax + 1},
                    d \in (0 - MaxVarintDelta) .. MaxVarintDelta}
      \cup {300, 70000, 5000000, 100000000, 200000000, UINT32_MAX}

InitVarint ==
    /\ conf \in [allow_anonymous : {TRUE}, max_inflight_messages : InflightLimits,
                 max_qos : {max_qos}, max_keepalive : {max_keepalive},
                 max_packet_size : {max_packet_size}]
    /\ tcp = [g \in Gobjs |-> "closed"]
    /\ priv = [g \in Gobjs |-> InitPriv]
    /\ clients = [c \in ClientIds |-> NoRecord]
    /\ timer = [g \in Gobjs |-> NoTimeout]
    /\ idle = [g \in Gobjs |-> 0]
    /\ out = << >>
    /\ last = InitLast
    /\ uint32 \in VarintWords
    /\ gbuf = << >>

(***************************************************************************)
(* The word is written to the empty buffer, and the buffer is then read    *)
(* back into the word.                                                     *)
(***************************************************************************)
WriteVarint ==
    /\ last.ev = ""
    /\ gbuf' = mqtt_write_varint(gbuf, uint32).gbuf
    /\ last' = [InitLast EXCEPT !.ev = "mqtt_write_varint",
                                !.rc = mqtt_write_varint(gbuf, uint32).rc]
    /\ UNCHANGED <<conf, tcp, priv, clients, timer, idle, out, uint32>>

ReadVarint ==
    /\ last.ev = "mqtt_write_varint"
    /\ gbuf' = mqtt_read_varint(gbuf, uint32).gbuf
    /\ uint32' = mqtt_read_varint(gbuf, uint32).word
    /\ last' = [InitLast EXCEPT !.ev = "mqtt_read_varint",
                                !.rc = mqtt_read_varint(gbuf, uint32).rc]
    /\ UNCHANGED <<conf, tcp, priv, clients, timer, idle, out>>

(***************************************************************************)
(* EV_CONNECTED: the transport of gobj g has accepted a connection.        *)
(***************************************************************************)
ac_connected(g) ==
    /\ tcp[g] = "closed"
    /\ Commit(set_timeout(
                  start_wait_frame_header(
                      [World EXCEPT !.tcp[g] = "open",
                                    !.priv[g] = gobj_reset_volatil_attrs(@)], g),
                  g, timeout_handshake),
              g, "EV_CONNECTED", NoPkt, 0, FALSE)

(***************************************************************************)
(* EV_DISCONNECTED: the connection of gobj g is closed, because the peer   *)
(* closed it or because a drop that the broker asked for has completed.    *)
(***************************************************************************)
ac_disconnected(g) ==
    /\ tcp[g] # "closed"
    /\ LET w1 == set_client_disconnected(World, g)
           w2 == [w1 EXCEPT !.priv[g] = gobj_reset_volatil_attrs(@)]
           w3 == IF w2.priv[g].must_broadcast_on_close
                 THEN [w2 EXCEPT !.priv[g].must_broadcast_on_close = FALSE,
                                 !.out = Append(@,
                                     EvKw(g, "EV_ON_CLOSE",
                                          json_pack("s:s", w2.priv[g].client_id)))]
                 ELSE w2
           w4 == [clear_timeout(w3, g) EXCEPT !.priv[g].dl_msgs_in = << >>,
                                              !.priv[g].dl_msgs_out = << >>,
                                              !.tcp[g] = "closed"]
       IN  Commit(w4, g, "EV_DISCONNECTED", NoPkt, 0, FALSE)

(***************************************************************************)
(* EV_RX_DATA: a complete packet arrives on the open connection of gobj g. *)
(* The header is consumed; a header that is refused closes the connection  *)
(* without a dispatch, and so does a handler that fails.                   *)
(***************************************************************************)
ac_process_frame_header(g, pkt, v) ==
    /\ tcp[g] = "open"
    /\ Encodable(priv[g], pkt)
    /\ IF framehead_consume(priv[g], pkt) <= 0
       THEN Commit(ws_close(set_timeout(World, g, pingT), g),
                   g, "EV_RX_DATA", pkt, -1, FALSE)
       ELSE LET completed(r) ==
                    Commit(IF r.rc < 0 THEN ws_close(r.w, g) ELSE r.w,
                           g, "EV_RX_DATA", pkt, r.rc, TRUE)
            IN  completed(frame_completed(set_timeout(World, g, pingT), g, pkt, v))

(***************************************************************************)
(* EV_RX_DATA with a buffer that holds several packets.  The while loop of *)
(* ac_process_frame_header handles each packet in turn as long as bytes    *)
(* are left; a header that is refused or a handler that fails closes the   *)
(* connection and breaks out of the loop, and what is left of the buffer   *)
(* is not read.  The result carries the last packet handled.  The packets  *)
(* of these buffers leave dl_msgs_in empty, so every store read is intact. *)
(***************************************************************************)
IntactView(q) == [i \in DOMAIN q |-> q[i].store]

RECURSIVE gbuf_loop(_, _, _)
gbuf_loop_without_break(w, g, pkts) ==
    LET more(w1, rc, dispatched) ==
            IF Tail(pkts) = << >>
            THEN [w |-> w1, rc |-> rc, pkt |-> Head(pkts),
                  dispatched |-> dispatched, left |-> << >>]
            ELSE gbuf_loop(w1, g, Tail(pkts))
        completed(r) ==
            more(IF r.rc < 0 THEN ws_close(r.w, g) ELSE r.w, r.rc, TRUE)
    IN  IF framehead_consume(w.priv[g], Head(pkts)) <= 0
        THEN more(ws_close(w, g), -1, FALSE)
        ELSE completed(frame_completed(w, g, Head(pkts),
                                       IntactView(w.priv[g].dl_msgs_in)))

gbuf_loop(w, g, pkts) ==
    LET completed(r) ==
            IF r.rc < 0
            THEN [w |-> ws_close(r.w, g), rc |-> r.rc, pkt |-> Head(pkts),
                  dispatched |-> TRUE, left |-> Tail(pkts)]
            ELSE IF Tail(pkts) = << >>
            THEN [w |-> r.w, rc |-> r.rc, pkt |-> Head(pkts),
                  dispatched |-> TRUE, left |-> << >>]
            ELSE gbuf_loop(r.w, g, Tail(pkts))
    IN  IF framehead_consume(w.priv[g], Head(pkts)) <= 0
        THEN [w |-> ws_close(w, g), rc |-> -1, pkt |-> Head(pkts),
              dispatched |-> FALSE, left |-> Tail(pkts)]
        ELSE completed(frame_completed(w, g, Head(pkts),
                                       IntactView(w.priv[g].dl_msgs_in)))

ac_process_frame_header_gbuf(g, pkts) ==
    /\ tcp[g] = "open"
    /\ LET handled(r) ==
               /\ Handled(r.w, g, "EV_RX_DATA", r.pkt, r.rc, r.dispatched)
               /\ gbuf' = r.left
               /\ UNCHANGED uint32
       IN  handled(gbuf_loop(set_timeout(World, g, pingT), g, pkts))

(***************************************************************************)
(* EV_TIMEOUT in ST_WAITING_FRAME_HEADER, the state of a gobj from         *)
(* EV_CONNECTED to EV_DISCONNECTED: priv->timer has expired.               *)
(***************************************************************************)
ac_timeout_waiting_frame_header(g) ==
    /\ tcp[g] # "closed"
    /\ timer[g] = 0
    /\ Commit(IF pingT > 0 THEN set_timeout(World, g, pingT) ELSE clear_timeout(World, g),
              g, "EV_TIMEOUT", NoPkt, 0, FALSE)

(***************************************************************************)
(* One second passes without an event.  A timer that has expired is        *)
(* served before time advances; a connection is observed for MaxIdle       *)
(* seconds of silence.                                                     *)
(***************************************************************************)
Tick ==
    /\ \E g \in Gobjs : tcp[g] # "closed"
    /\ \A g \in Gobjs : timer[g] # 0
    /\ \A g \in Gobjs : idle[g] < MaxIdle
    /\ timer' = [g \in Gobjs |-> IF timer[g] > 0 THEN timer[g] - 1 ELSE timer[g]]
    /\ idle' = [g \in Gobjs |-> IF tcp[g] # "closed" THEN idle[g] + 1 ELSE idle[g]]
    /\ out' = << >>
    /\ last' = [InitLast EXCEPT !.ev = "Tick"]
    /\ UNCHANGED <<conf, tcp, priv, clients, uint32, gbuf>>

(***************************************************************************)
(* Spec: sessions opened by plain CONNECTs (anonymous access allowed)      *)
(* exchange PUBLISH at every QoS, acknowledgements and QoS 2               *)
(* subscriptions.                                                          *)
(* SpecInflight: QoS 2 PUBLISH and PUBREL with every mid.                  *)
(* SpecRouter: QoS 0 traffic through subscriptions with every filter and   *)
(* both settings of no_local.                                              *)
(* SpecConnect: every variant of CONNECT, under both settings of           *)
(* allow_anonymous, and one packet of every other command.                 *)
(* SpecSession: clean and persistent sessions of one client id with QoS 1  *)
(* traffic.                                                                *)
(* SpecRefusal: CONNECTs for persistent sessions and with                  *)
(* session-expiry-interval properties.                                     *)
(* SpecKeepalive: time passes and the timer of the gobj expires.  In the   *)
(* other specifications no time passes between the events.                 *)
(* SpecBuffer: the packets arrive several to a buffer.                      *)
(* SpecMid: deliveries to one subscription, from every persisted last_mid.  *)
(* SpecReuse: QoS 2 publishes that use one mid for two topics.              *)
(* SpecAcking: deliveries at QoS 1 and 2 answered with every acknowledgement.*)
(* SpecPersistent: a persistent session that comes and goes while another   *)
(* client publishes to its subscription.                                    *)
(***************************************************************************)
RxData(g, pkt) ==
    \E v \in Views(priv[g].dl_msgs_in) : ac_process_frame_header(g, pkt, v)

Next ==
    \/ \E g \in Gobjs : ac_connected(g)
    \/ \E g \in Gobjs : ac_disconnected(g)
    \/ \E g \in Gobjs : \E pkt \in DeliveryPackets(g) : RxData(g, pkt)

NextInflight ==
    \/ \E g \in Gobjs : ac_connected(g)
    \/ \E g \in Gobjs : ac_disconnected(g)
    \/ \E g \in Gobjs : \E pkt \in InflightPackets(g) : RxData(g, pkt)

NextRouter ==
    \/ \E g \in Gobjs : ac_connected(g)
    \/ \E g \in Gobjs : ac_disconnected(g)
    \/ \E g \in Gobjs : \E pkt \in RouterPackets(g) : RxData(g, pkt)

NextQos ==
    \/ \E g \in Gobjs : ac_connected(g)
    \/ \E g \in Gobjs : ac_disconnected(g)
    \/ \E g \in Gobjs : \E pkt \in QosPackets(g) : RxData(g, pkt)

NextServerKeepalive ==
    \/ \E g \in Gobjs : ac_connected(g)
    \/ \E g \in Gobjs : ac_disconnected(g)
    \/ \E g \in Gobjs : \E pkt \in ServerKeepalivePackets(g) : RxData(g, pkt)

NextSized ==
    \/ \E g \in Gobjs : ac_connected(g)
    \/ \E g \in Gobjs : ac_disconnected(g)
    \/ \E g \in Gobjs : \E pkt \in SizedPackets(g) : RxData(g, pkt)

NextVarint ==
    \/ WriteVarint
    \/ ReadVarint

NextBuffer ==
    \/ \E g \in Gobjs : ac_connected(g)
    \/ \E g \in Gobjs : ac_disconnected(g)
    \/ \E g \in Gobjs : \E pkts \in Buffers(g) : ac_process_frame_header_gbuf(g, pkts)

NextMid == subs__send_qos1

NextPersistent ==
    \/ \E g \in Gobjs : ac_connected(g)
    \/ \E g \in Gobjs : ac_disconnected(g)
    \/ \E g \in Gobjs : \E pkt \in PersistentPackets(g) : RxData(g, pkt)

NextReuse ==
    \/ \E g \in Gobjs : ac_connected(g)
    \/ \E g \in Gobjs : ac_disconnected(g)
    \/ \E g \in Gobjs : \E pkt \in ReusePackets(g) : RxData(g, pkt)

NextAcking ==
    \/ \E g \in Gobjs : ac_connected(g)
    \/ \E g \in Gobjs : ac_disconnected(g)
    \/ \E g \in Gobjs : \E pkt \in AckingPackets(g) : RxData(g, pkt)

NextConnect ==
    \/ \E g \in Gobjs : ac_connected(g)
    \/ \E g \in Gobjs : ac_disconnected(g)
    \/ \E g \in Gobjs : \E pkt \in HandshakePackets(g) : RxData(g, pkt)

NextSession ==
    \/ \E g \in Gobjs : ac_connected(g)
    \/ \E g \in Gobjs : ac_disconnected(g)
    \/ \E g \in Gobjs : \E pkt \in SessionPackets(g) : RxData(g, pkt)

NextRefusal ==
    \/ \E g \in Gobjs : ac_connected(g)
    \/ \E g \in Gobjs : ac_disconnected(g)
    \/ \E g \in Gobjs : \E pkt \in RefusalPackets(g) : RxData(g, pkt)

NextKeepalive ==
    \/ \E g \in Gobjs : ac_connected(g)
    \/ \E g \in Gobjs : ac_disconnected(g)
    \/ \E g \in Gobjs : \E pkt \in KeepalivePackets(g) : RxData(g, pkt)
    \/ \E g \in Gobjs : ac_timeout_waiting_frame_header(g)
    \/ Tick

Spec == Init /\ [][Next]_vars

SpecSession == Init /\ [][NextSession]_vars

SpecRefusal == InitConnect /\ [][NextRefusal]_vars

SpecKeepalive == Init /\ [][NextKeepalive]_vars

SpecQos == InitQos /\ [][NextQos]_vars

SpecVarint == InitVarint /\ [][NextVarint]_vars

SpecSized == InitSized /\ [][NextSized]_vars

SpecServerKeepalive == InitServerKeepalive /\ [][NextServerKeepalive]_vars

SpecInflight == Init /\ [][NextInflight]_vars

SpecRouter == Init /\ [][NextRouter]_vars

SpecConnect == InitConnect /\ [][NextConnect]_vars

SpecBuffer == Init /\ [][NextBuffer]_vars

SpecMid == InitMid /\ [][NextMid]_vars

SpecAcking == Init /\ [][NextAcking]_vars

SpecReuse == Init /\ [][NextReuse]_vars

SpecPersistent == Init /\ [][NextPersistent]_vars

(***************************************************************************)
(* Properties                                                              *)
(***************************************************************************)
(* The step handles a packet of the command, received by gobj last'.gobj.   *)
RxStep(cmd) == last'.ev = "EV_RX_DATA" /\ last'.cmd = cmd

PacketOf(cmd, mid) == [NoPkt EXCEPT !.cmd = cmd, !.mid = mid]

RangeOf(seq) == {seq[i] : i \in DOMAIN seq}

(* The gobjs of the connected sessions that hold a subscription selected   *)
(* for the topic and whose transport accepts data.                         *)
LiveSubscribers(topic) ==
    {clients[k.client_id].gobj : k \in
        {k \in RangeOf(sub_get_subscribers(clients, topic)) :
            /\ clients[k.client_id].isConnected
            /\ clients[k.client_id].gobj # 0
            /\ tcp[clients[k.client_id].gobj] = "open"}}

Deliveries(o, h, topic) ==
    Cardinality({i \in DOMAIN o :
        o[i].cmd = "PUBLISH" /\ o[i].to = h /\ o[i].topic = topic})

(* C1: when a QoS 2 PUBLISH has been received twice (same mid, same         *)
(* content) before its PUBREL, the PUBREL delivers the message to each      *)
(* matching subscriber exactly once.                                        *)
C1_DuplicatePublishDeliveredOnce ==
    [][RxStep("PUBREL") =>
          \A m \in Mids : \A v \in Views(priv[last'.gobj].dl_msgs_in) :
              LET g == last'.gobj
                  q == priv[g].dl_msgs_in
                  i == dl_find_mid(q, m)
              IN  (/\ i # 0
                   /\ q[i].rcvd = 2
                   /\ ac_process_frame_header(g, PacketOf("PUBREL", m), v))
                  => \A h \in LiveSubscribers(q[i].store.topic) :
                         Deliveries(out', h, q[i].store.topic) = 1]_vars

InSession(c) == {g \in Gobjs : priv[g].in_session /\ priv[g].client_id = c}

(* The last step accepted a CONNECT on gobj g and dropped the connection    *)
(* of another gobj, which held the session of the same client id.           *)
Takeover(g) ==
    /\ last.ev = "EV_RX_DATA" /\ last.cmd = "CONNECT" /\ last.gobj = g
    /\ last.rc = 0
    /\ \E i \in DOMAIN out : out[i].cmd = "EV_DROP" /\ out[i].to # g

(* C2: after a CONNECT is accepted for a client id that has a connected     *)
(* session, exactly one session of that client id is live: the newer one    *)
(* is in session and the older one is not.                                  *)
C2_OneLiveSessionAfterTakeover ==
    \A g \in Gobjs :
        Takeover(g) => /\ priv[g].in_session
                       /\ InSession(priv[g].client_id) = {g}

MidsOf(q) == {q[i].mid : i \in DOMAIN q}

(* C3: in each session and each direction, no two entries in flight carry   *)
(* the same mid.                                                            *)
C3_DistinctMidsInFlight ==
    \A g \in Gobjs :
        /\ Cardinality(MidsOf(priv[g].dl_msgs_out)) = Len(priv[g].dl_msgs_out)
        /\ Cardinality(MidsOf(priv[g].dl_msgs_in)) = Len(priv[g].dl_msgs_in)

(* C4: in each session and each direction, the number of active mids never  *)
(* exceeds max_inflight_messages.                                           *)
C4_InflightWithinLimit ==
    \A g \in Gobjs :
        /\ Cardinality(MidsOf(priv[g].dl_msgs_out)) <= conf.max_inflight_messages
        /\ Cardinality(MidsOf(priv[g].dl_msgs_in)) <= conf.max_inflight_messages

(* The states of an outbound QoS 2 message, in their order.                 *)
Qos2Order ==
    [mosq_ms_publish_qos2 |-> 1, mosq_ms_wait_for_pubrec |-> 2,
     mosq_ms_wait_for_pubcomp |-> 3]

Qos2Entry(e) == e.qos = 2 /\ e.state \in DOMAIN Qos2Order

(* One entry of the queue holds its state or moves to the next one.         *)
Qos2Advance(e, f) ==
    \/ f = e
    \/ /\ Qos2Entry(e) /\ Qos2Entry(f)
       /\ f.mid = e.mid
       /\ Qos2Order[f.state] = Qos2Order[e.state] + 1

(* The entries put at the head of the queue start the sequence.             *)
Qos2Inserted(q, r) ==
    /\ Len(r) > Len(q)
    /\ SubSeq(r, Len(r) - Len(q) + 1, Len(r)) = q
    /\ \A i \in 1 .. Len(r) - Len(q) :
           Qos2Entry(r[i]) /\ Qos2Order[r[i].state] <= 2

(* One entry leaves the queue: completed by PUBCOMP, or terminated by a     *)
(* PUBREC that carries a reason code of 0x80 or more.                       *)
Qos2Removed(q, r, cmd) ==
    \E i \in DOMAIN q :
        /\ r = dl_delete(q, i)
        /\ Qos2Entry(q[i])
        /\ \/ q[i].state = "mosq_ms_wait_for_pubcomp" /\ cmd = "PUBCOMP"
           \/ q[i].state = "mosq_ms_wait_for_pubrec" /\ cmd = "PUBREC"

(* C5: every outbound QoS 2 message goes through publish-qos2,              *)
(* wait-for-pubrec, wait-for-pubcomp in that order, one state at a time;    *)
(* it may stop at any point (the queue is flushed when the connection       *)
(* closes) or be terminated by a PUBREC with a reason code >= 0x80.         *)
C5_Qos2StatesInOrder ==
    [][\A g \in Gobjs :
          LET q == priv[g].dl_msgs_out
              r == priv'[g].dl_msgs_out
          IN  \/ Len(r) = Len(q) /\ \A i \in DOMAIN q : Qos2Advance(q[i], r[i])
              \/ Qos2Inserted(q, r)
              \/ Qos2Removed(q, r, last'.cmd)
              \/ r = << >> /\ last'.ev = "EV_DISCONNECTED" /\ last'.gobj = g]_vars

C5_Witness ==
    \E g \in Gobjs : \E i \in DOMAIN priv[g].dl_msgs_out :
        /\ last.ev = "EV_RX_DATA" /\ last.cmd = "PUBREC" /\ last.gobj = g
        /\ last.rc = 0
        /\ priv[g].dl_msgs_out[i].state = "mosq_ms_wait_for_pubcomp"

(* C6: on a connection without a session, a packet whose command is not     *)
(* CONNECT is refused with an error, is not dispatched to its handler and   *)
(* changes nothing but the transport, which is dropped.                     *)
C6_FirstCommandMustBeConnect ==
    [][\A pkt \in ProbePackets :
          (RxStep(pkt.cmd) /\ ~priv[last'.gobj].in_session) =>
              \A v \in Views(priv[last'.gobj].dl_msgs_in) :
                  LET g == last'.gobj
                  IN  ac_process_frame_header(g, pkt, v)
                      => /\ ~last'.dispatched
                         /\ last'.rc < 0
                         /\ out' = <<Ev(g, "EV_DROP")>>
                         /\ tcp'[g] = "dropping"
                         /\ priv' = priv
                         /\ clients' = clients]_vars

C6_Witness ==
    /\ last.ev = "EV_RX_DATA"
    /\ last.cmd \in {pkt.cmd : pkt \in ProbePackets}
    /\ ~last.dispatched
    /\ ~priv[last.gobj].in_session
    /\ tcp[last.gobj] = "dropping"

(* The CONNECT names no user of the user database with its password.       *)
NoValidCredentials(pkt) ==
    ~(pkt.username \in Users /\ pkt.password = UserPassword[pkt.username])

NotAuthorizedOf(pkt) ==
    IF pkt.protocol_version = "mosq_p_mqtt5"
    THEN MQTT_RC_NOT_AUTHORIZED ELSE CONNACK_REFUSED_NOT_AUTHORIZED

(* One CONNACK with reason NotAuthorized, then the close, and no session.   *)
RefusedNotAuthorized(g, pkt) ==
    /\ Len(out') = 2
    /\ out'[1].cmd = "CONNACK" /\ out'[1].to = g
    /\ out'[1].rc = NotAuthorizedOf(pkt)
    /\ out'[2] = Ev(g, "EV_DROP")
    /\ tcp'[g] = "dropping"
    /\ ~priv'[g].in_session
    /\ clients' = clients

ReachesAuthentication(g, pkt) ==
    /\ ~priv[g].in_session
    /\ pkt.client_id # ""
    /\ ~(pkt.protocol_version = "mosq_p_mqtt311"
            /\ pkt.username = "" /\ pkt.password # "")
    /\ pkt.auth_method = ""
    /\ (pkt.maximum_packet_size = 0 \/ pkt.maximum_packet_size >= 4)

C8_OlderSessionCancelledBeforeAccept ==
    \A i, j \in DOMAIN out :
        (/\ out[i].cmd = "EV_DROP"
         /\ out[j].cmd = "CONNACK" /\ out[j].rc = CONNACK_ACCEPTED
         /\ out[i].to # out[j].to)
        => /\ i < j
           /\ tcp[out[i].to] = "closed"
           /\ ~priv[out[i].to].in_session

(* The MQTT wildcard rules: '+' matches exactly one level, '#' matches      *)
(* zero or more trailing levels, and a topic whose first level begins with  *)
(* '$' is not matched by a filter whose first level is '#' or '+'.          *)
DollarLevels == {"$SYS"}

RECURSIVE LevelsMatch(_, _)
LevelsMatch(filter, topic) ==
    IF filter = << >> THEN topic = << >>
    ELSE IF Head(filter) = "#" THEN Len(filter) = 1
    ELSE IF topic = << >> THEN FALSE
    ELSE /\ Head(filter) \in {"+", Head(topic)}
         /\ LevelsMatch(Tail(filter), Tail(topic))

TopicMatches(filter, topic) ==
    /\ filter # << >> /\ topic # << >>
    /\ ~(Head(topic) \in DollarLevels /\ Head(filter) \in {"#", "+"})
    /\ LevelsMatch(filter, topic)

Qos0Publishes == {pkt \in PublishPackets : pkt.qos = 0}

(* The subscriptions of the sessions that are connected on a transport      *)
(* that accepts data.                                                       *)
LiveSubscriptions ==
    {k \in RangeOf(AllSubscriptionKeys) :
        /\ k.filter \in DOMAIN clients[k.client_id].subscriptions
        /\ clients[k.client_id].isConnected
        /\ clients[k.client_id].gobj # 0
        /\ tcp[clients[k.client_id].gobj] = "open"}

(* The step sent the PUBLISH of the topic through subscription k.           *)
DeliveredThrough(k, topic) ==
    \E i \in DOMAIN out' :
        /\ out'[i].cmd = "PUBLISH"
        /\ out'[i].to = clients[k.client_id].gobj
        /\ out'[i].via = k.filter
        /\ out'[i].topic = topic

(* C9: a PUBLISH is delivered through every subscription whose filter       *)
(* matches the topic under the MQTT wildcard rules, and through no other.   *)
C9_DeliveryFollowsWildcardMatch ==
    [][RxStep("PUBLISH") =>
          \A pkt \in Qos0Publishes :
              (/\ priv[last'.gobj].in_session
               /\ ac_process_frame_header(last'.gobj, pkt, << >>))
              => \A k \in LiveSubscriptions :
                     DeliveredThrough(k, pkt.topic) <=> TopicMatches(k.filter, pkt.topic)]_vars

(* C10: a PUBLISH is not delivered through a subscription that has          *)
(* no_local = true when the subscriber is the client that published it.     *)
C10_NoLocalNotEchoed ==
    [][RxStep("PUBLISH") =>
          \A pkt \in Qos0Publishes :
              (/\ priv[last'.gobj].in_session
               /\ ac_process_frame_header(last'.gobj, pkt, << >>))
              => \A k \in LiveSubscriptions :
                     (/\ k.client_id = priv[last'.gobj].client_id
                      /\ clients[k.client_id].subscriptions[k.filter].no_local)
                     => ~DeliveredThrough(k, pkt.topic)]_vars

(* The gobjs, other than g, that hold a session of the client id with a     *)
(* session expiry interval above zero.                                      *)
PriorSessions(g, client_id) ==
    {h \in Gobjs \ {g} :
        /\ priv[h].in_session
        /\ priv[h].client_id = client_id
        /\ priv[h].session_expiry_interval > 0}

(* C11: when a CONNECT with clean_start = false is accepted for a client    *)
(* id whose prior session has session_expiry_interval > 0, the new session  *)
(* has the prior session's subscriptions, mid counter and message queues.   *)
C11_PriorSessionInherited ==
    [][(RxStep("CONNECT") /\ last'.rc = 0 /\ ~priv'[last'.gobj].clean_start) =>
          LET g == last'.gobj
              c == priv'[g].client_id
          IN  \A h \in PriorSessions(g, c) :
                  /\ clients'[c].subscriptions = clients[c].subscriptions
                  /\ clients'[c].last_mid = clients[c].last_mid
                  /\ priv'[g].dl_msgs_out = priv[h].dl_msgs_out
                  /\ priv'[g].dl_msgs_in = priv[h].dl_msgs_in]_vars

(* The session of gobj g is persistent: it was opened with a session       *)
(* expiry interval above zero (in v3.1.1, with clean_start = false).        *)
Persistent(g) == priv[g].in_session /\ priv[g].session_expiry_interval > 0

Unacknowledged(q) == {q[i].mid : i \in {j \in DOMAIN q : q[j].qos \in {1, 2}}}

(* C12: when the transport of a persistent session closes, the outbound     *)
(* QoS 1 and QoS 2 messages that are still unacknowledged are kept (they    *)
(* are the ones to retransmit with dup = 1 when the client reconnects).     *)
C12_UnacknowledgedKeptOnClose ==
    [][(last'.ev = "EV_DISCONNECTED" /\ Persistent(last'.gobj)) =>
          Unacknowledged(priv[last'.gobj].dl_msgs_out)
              \subseteq Unacknowledged(priv'[last'.gobj].dl_msgs_out)]_vars

(* C13: a session with keepalive > 0 whose connection has received nothing  *)
(* for more than 1.5 times the keepalive interval has been closed.          *)
C13_SilentSessionClosed ==
    \A g \in Gobjs :
        (priv[g].in_session /\ priv[g].keepalive > 0 /\ tcp[g] = "open")
        => 2 * idle[g] <= 3 * priv[g].keepalive

(* In o, gobj g is sent a packet of the command whose reason code is in     *)
(* reasons, before its transport is dropped.                                *)
SentBeforeDrop(o, g, cmd, reasons) ==
    \E i \in DOMAIN o :
        /\ o[i].cmd = cmd /\ o[i].to = g /\ o[i].rc \in reasons
        /\ \A j \in DOMAIN o : (o[j].cmd = "EV_DROP" /\ o[j].to = g) => i < j

(* The reason codes of a CONNACK that refuses.                              *)
ConnackRefusals ==
    {CONNACK_REFUSED_IDENTIFIER_REJECTED, CONNACK_REFUSED_NOT_AUTHORIZED,
     MQTT_RC_UNSPECIFIED, MQTT_RC_MALFORMED_PACKET, MQTT_RC_PROTOCOL_ERROR,
     MQTT_RC_NOT_AUTHORIZED, MQTT_RC_BAD_AUTHENTICATION_METHOD}

(* C14: every CONNECT that the server rejects causes a CONNACK with a       *)
(* refusing reason code to be sent before the transport is closed.          *)
C14_RejectedConnectGetsConnack ==
    [][(RxStep("CONNECT") /\ last'.rc < 0) =>
          SentBeforeDrop(out', last'.gobj, "CONNACK", ConnackRefusals)]_vars

(* The reason codes that frame_completed maps the errors of a handler to.   *)
DisconnectReasons ==
    {MQTT_RC_UNSPECIFIED, MQTT_RC_MALFORMED_PACKET, MQTT_RC_PROTOCOL_ERROR}

(* C15: on a v5 connection with an established session, every error that    *)
(* makes the server close the connection causes a DISCONNECT with the       *)
(* mapped reason code to be sent before the transport is closed.            *)
C15_V5ErrorSendsDisconnect ==
    [][(/\ last'.ev = "EV_RX_DATA" /\ last'.rc < 0
        /\ priv[last'.gobj].in_session
        /\ priv[last'.gobj].protocol_version = "mosq_p_mqtt5") =>
          SentBeforeDrop(out', last'.gobj, "DISCONNECT", DisconnectReasons)]_vars

(* C16: no packet is written to a transport whose total size exceeds the    *)
(* maximum_packet_size that the peer advertised in its CONNECT.             *)
C16_NoOversizePacketWritten ==
    \A i \in DOMAIN out :
        (out[i].len > 0 /\ priv[out[i].to].maximum_packet_size > 0)
        => out[i].len <= priv[out[i].to].maximum_packet_size

Qos1Publishes == {pkt \in PublishPackets : pkt.qos = 1}

(* The PUBACK that the step sent to gobj g for the mid carries the reason.  *)
PubackSent(g, mid, reason) ==
    \E i \in DOMAIN out' :
        /\ out'[i].cmd = "PUBACK" /\ out'[i].to = g /\ out'[i].mid = mid
        /\ out'[i].rc = reason

(* C17: for an inbound QoS 1 PUBLISH on a v5 session, the PUBACK carries    *)
(* reason code 16 (NoMatchingSubscribers) if no subscription is selected    *)
(* for the topic, and reason code 0 if at least one is.                     *)
C17_PubackReasonTellsSubscribers ==
    [][RxStep("PUBLISH") =>
          \A pkt \in Qos1Publishes :
              (/\ priv[last'.gobj].in_session
               /\ priv[last'.gobj].protocol_version = "mosq_p_mqtt5"
               /\ ac_process_frame_header(last'.gobj, pkt, << >>))
              => PubackSent(last'.gobj, pkt.mid,
                            IF sub_get_subscribers(clients, pkt.topic) = << >>
                            THEN MQTT_RC_NO_MATCHING_SUBSCRIBERS ELSE 0)]_vars

(* C18: a SUBSCRIBE that names a filter the client already subscribes to    *)
(* is not an error: the session stays open and a SUBACK is sent that        *)
(* carries the granted QoS for the filter.                                  *)
C18_ResubscribeAcknowledged ==
    [][RxStep("SUBSCRIBE") =>
          \A pkt \in SubscribePackets :
              LET g == last'.gobj
              IN  (/\ priv[g].in_session
                   /\ pkt.topic \in DOMAIN clients[priv[g].client_id].subscriptions
                   /\ ac_process_frame_header(g, pkt, << >>))
                  => /\ last'.rc = 0
                     /\ tcp'[g] = "open"
                     /\ priv'[g].in_session
                     /\ \E i \in DOMAIN out' :
                           /\ out'[i].cmd = "SUBACK" /\ out'[i].to = g
                           /\ out'[i].mid = pkt.mid
                           /\ out'[i].rc = IF pkt.qos > conf.max_qos THEN conf.max_qos
                                                                ELSE pkt.qos]_vars

(* The CONNECTs that carry two session-expiry-interval properties.          *)
DuplicateSessionExpiry == {c \in ConnectPackets : Len(c.session_expiry) = 2}

(* C19: a v5 CONNECT that contains two session-expiry-interval properties   *)
(* is answered with a CONNACK whose reason is MalformedPacket, and the      *)
(* transport is then closed.                                                *)
C19_DuplicatePropertyRefused ==
    [][RxStep("CONNECT") =>
          \A pkt \in DuplicateSessionExpiry :
              LET g == last'.gobj
              IN  (~priv[g].in_session /\ ac_process_frame_header(g, pkt, << >>))
                  => /\ SentBeforeDrop(out', g, "CONNACK", {MQTT_RC_MALFORMED_PACKET})
                     /\ tcp'[g] = "dropping"]_vars

(* The v3.1.1 CONNECTs with an empty client id and clean_start = 0.         *)
EmptyIdPersistent ==
    {c \in ConnectPackets :
        /\ c.protocol_version = "mosq_p_mqtt311"
        /\ c.client_id = ""
        /\ ~c.clean_start}

(* C20: a v3.1.1 CONNECT with an empty client id and clean_start = 0 that   *)
(* opens a connection is answered with one CONNACK, IdentifierRejected;     *)
(* the transport is dropped in the same step, no session is established     *)
(* and the client registry is left as it was.                               *)
C20_EmptyClientIdRejected ==
    [][RxStep("CONNECT") =>
          \A pkt \in EmptyIdPersistent :
              LET g == last'.gobj
              IN  (~priv[g].in_session /\ ac_process_frame_header(g, pkt, << >>))
                  => /\ Len(out') = 2
                     /\ out'[1].cmd = "CONNACK" /\ out'[1].to = g
                     /\ out'[1].rc = CONNACK_REFUSED_IDENTIFIER_REJECTED
                     /\ out'[2] = Ev(g, "EV_DROP")
                     /\ tcp'[g] = "dropping"
                     /\ ~priv'[g].in_session
                     /\ clients' = clients]_vars

C20_Witness ==
    /\ last.ev = "EV_RX_DATA" /\ last.cmd = "CONNECT" /\ last.dispatched
    /\ last.rc < 0
    /\ priv[last.gobj].protocol_version = "mosq_p_mqtt311"
    /\ priv[last.gobj].client_id = ""
    /\ ~priv[last.gobj].clean_start
    /\ \E i \in DOMAIN out :
          out[i].cmd = "CONNACK" /\ out[i].rc = CONNACK_REFUSED_IDENTIFIER_REJECTED
    /\ tcp[last.gobj] = "dropping"
    /\ ~priv[last.gobj].in_session

(* The PUBRECs that carry a reason code of 0x80 or more.                    *)
RefusingPubrecs == {pkt \in AckPackets : pkt.cmd = "PUBREC" /\ pkt.reason_code >= 128}

(* The queue q without its entry i.                                         *)
Without(q, i) == SubSeq(q, 1, i - 1) \o SubSeq(q, i + 1, Len(q))

(* The step deleted the outbound entry of the mid and sent no PUBREL for    *)
(* the mid.                                                                 *)
FlowTerminated(g, mid) ==
    /\ priv'[g].dl_msgs_out =
           Without(priv[g].dl_msgs_out, dl_find_mid(priv[g].dl_msgs_out, mid))
    /\ \A i \in DOMAIN out' : ~(out'[i].cmd = "PUBREL" /\ out'[i].mid = mid)

(* The outbound entry of the mid in the session of gobj g, 0 if none, when  *)
(* the session is a v5 session and the entry is a QoS 2 message.            *)
OutboundQos2(g, mid) ==
    LET q == priv[g].dl_msgs_out
        i == dl_find_mid(q, mid)
    IN  IF priv[g].in_session /\ priv[g].protocol_version = "mosq_p_mqtt5"
             /\ i # 0 /\ q[i].qos = 2
        THEN i ELSE 0

FinalAcks == {pkt \in AckPackets : pkt.cmd \in {"PUBACK", "PUBCOMP"}}

NoOutboundEntry(g, mid) ==
    \A i \in DOMAIN priv[g].dl_msgs_out : priv[g].dl_msgs_out[i].mid # mid

SessionUntouched(g) ==
    /\ priv' = priv
    /\ clients' = clients
    /\ tcp' = tcp
    /\ out' = << >>
    /\ last'.rc = 0

Min(a, b) == IF a < b THEN a ELSE b

(* Every PUBLISH the step sent went through a subscription of a client      *)
(* whose session is the packet's target, with the QoS the claim gives.      *)
DeliveredWithMinQos(published_qos) ==
    \A i \in DOMAIN out' :
        out'[i].cmd = "PUBLISH" =>
            \E c \in ClientIds :
                /\ clients[c].gobj = out'[i].to
                /\ out'[i].via \in DOMAIN clients[c].subscriptions
                /\ out'[i].qos = Min(published_qos,
                                     Min(clients[c].subscriptions[out'[i].via].qos,
                                         conf.max_qos))

(* C23: every PUBLISH delivered to a subscriber carries the minimum of the  *)
(* publish QoS, the granted QoS of the subscription it was delivered        *)
(* through, and the broker's max_qos.  A QoS 0 or QoS 1 publish is          *)
(* delivered by the step that receives it, a QoS 2 publish by the step that *)
(* receives its PUBREL.                                                     *)
C23_DeliveryQosIsMinimum ==
    [][/\ RxStep("PUBLISH") =>
              \A pkt \in PublishPackets :
                  RxData(last'.gobj, pkt) => DeliveredWithMinQos(pkt.qos)
       /\ RxStep("PUBREL") => DeliveredWithMinQos(2)]_vars

(* A QoS 2 publish was delivered at QoS 1 through a subscription granted    *)
(* QoS 1 by a broker whose max_qos is 2.                                    *)
C23_Witness ==
    /\ last.ev = "EV_RX_DATA" /\ last.cmd = "PUBREL"
    /\ conf.max_qos = 2
    /\ \E i \in DOMAIN out :
           /\ out[i].cmd = "PUBLISH" /\ out[i].qos = 1
           /\ \E c \in ClientIds :
                  /\ clients[c].gobj = out[i].to
                  /\ out[i].via \in DOMAIN clients[c].subscriptions
                  /\ clients[c].subscriptions[out[i].via].qos = 1

(***************************************************************************)
(* C24: order of the deliveries to one session                             *)
(*                                                                         *)
(* The Router observes a QoS 0 or QoS 1 publish in the step that receives  *)
(* the PUBLISH and a QoS 2 publish in the step that receives its PUBREL.   *)
(* The deliveries keep the order of the observations when every delivery   *)
(* is written in the step that observes its publish: no step writes a      *)
(* delivery of an earlier publish, and no delivery is left for a later     *)
(* step.                                                                   *)
(***************************************************************************)
PublishesSent == {i \in DOMAIN out' : out'[i].cmd = "PUBLISH"}

(* The PUBLISH packets of the step are the deliveries of the publish that   *)
(* session g hands to the Router in this step, one for each subscription;   *)
(* when the stored message is intact they carry its topic and none is left  *)
(* for later.                                                               *)
EmittedWhenObserved(g, topic, intact) ==
    /\ \A i \in PublishesSent : out'[i].source_id = priv[g].client_id
    /\ \A i, j \in PublishesSent :
           (i # j /\ out'[i].to = out'[j].to) => out'[i].via # out'[j].via
    /\ intact =>
           /\ \A i \in PublishesSent : out'[i].topic = topic
           /\ \A k \in LiveSubscriptions :
                  k.filter = topic => DeliveredThrough(k, topic)

(* C24: for any one target session, the PUBLISH packets are written to the  *)
(* session in the order in which the Router observed the publishes.         *)
C24_DeliveriesInObservedOrder ==
    [][/\ PublishesSent # {} => (RxStep("PUBLISH") \/ RxStep("PUBREL"))
       /\ RxStep("PUBLISH") =>
              \A pkt \in PublishPackets :
                  (RxData(last'.gobj, pkt) /\ priv[last'.gobj].in_session
                       /\ pkt.qos <= conf.max_qos)
                  => IF pkt.qos = 2 THEN PublishesSent = {}
                     ELSE EmittedWhenObserved(last'.gobj, pkt.topic, TRUE)
       /\ RxStep("PUBREL") =>
              \A pkt \in AckPackets :
                  LET g == last'.gobj
                      i == dl_find_mid(priv[g].dl_msgs_in, pkt.mid)
                  IN  (pkt.cmd = "PUBREL" /\ RxData(g, pkt) /\ i # 0)
                      => EmittedWhenObserved(g, priv[g].dl_msgs_in[i].store.topic,
                                             ~priv[g].dl_msgs_in[i].freed)]_vars

(* A publish was delivered to a session that still holds the delivery of    *)
(* an earlier publish.                                                      *)
C24_Witness ==
    \E i \in DOMAIN out :
        /\ out[i].cmd = "PUBLISH"
        /\ out[i].qos > 0
        /\ Len(priv[out[i].to].dl_msgs_out) = 2
        /\ priv[out[i].to].dl_msgs_out[1].qos # priv[out[i].to].dl_msgs_out[2].qos

(***************************************************************************)
(* C25: the keepalive the server imposes                                   *)
(***************************************************************************)
(* The v5 CONNECTs that nothing but the keepalive could make unacceptable.  *)
V5Connects(g) ==
    {c \in ServerKeepalivePackets(g) :
        c.cmd = "CONNECT" /\ c.protocol_version = "mosq_p_mqtt5"}

(* The CONNACK the step sent to g accepts the session and carries the       *)
(* property SERVER_KEEP_ALIVE with the value given.                         *)
AcceptedWithServerKeepAlive(g, value) ==
    \E i \in DOMAIN out' :
        /\ out'[i].cmd = "CONNACK" /\ out'[i].to = g
        /\ out'[i].rc = CONNACK_ACCEPTED
        /\ out'[i].server_keep_alive = value

(* C25: with max_keepalive > 0, a v5 CONNECT whose keepalive is 0 or above  *)
(* max_keepalive is accepted, the keepalive of the session becomes          *)
(* max_keepalive, and the CONNACK advertises that value as                  *)
(* server-keep-alive.                                                       *)
C25_KeepaliveClampedAndAdvertised ==
    [][RxStep("CONNECT") =>
          \A pkt \in V5Connects(last'.gobj) :
              LET g == last'.gobj
              IN  (/\ conf.max_keepalive > 0
                   /\ (pkt.keepalive = 0 \/ pkt.keepalive > conf.max_keepalive)
                   /\ ~priv[g].in_session
                   /\ RxData(g, pkt))
                  => /\ priv'[g].in_session
                     /\ clients'[pkt.client_id].keepalive = conf.max_keepalive
                     /\ AcceptedWithServerKeepAlive(g, conf.max_keepalive)]_vars

(***************************************************************************)
(* C26: session-expiry-interval in DISCONNECT                              *)
(***************************************************************************)
(* The DISCONNECTs whose property sets an interval other than zero.         *)
ExpiryRaisingDisconnects ==
    {pkt \in DisconnectPackets :
        pkt.session_expiry # << >> /\ pkt.session_expiry[1] # 0}

(* C26: a v5 DISCONNECT whose properties set a session_expiry_interval      *)
(* other than zero on a session whose interval is zero is a protocol        *)
(* error, and the interval of the session is left unchanged.                *)
C26_ExpiryRaiseIsProtocolError ==
    [][RxStep("DISCONNECT") =>
          \A pkt \in ExpiryRaisingDisconnects :
              LET g == last'.gobj
              IN  (/\ priv[g].in_session
                   /\ priv[g].protocol_version = "mosq_p_mqtt5"
                   /\ priv[g].session_expiry_interval = 0
                   /\ RxData(g, pkt))
                  => /\ last'.rc = MOSQ_ERR_PROTOCOL
                     /\ priv'[g].session_expiry_interval = 0]_vars

(***************************************************************************)
(* C27: allow_anonymous and a CONNECT that names a user                    *)
(***************************************************************************)
(* C27: with allow_anonymous = true the credential check is skipped only    *)
(* for a CONNECT without user name; a CONNECT that presents a user name is  *)
(* verified against the user database and, when the verification fails, is *)
(* refused: the handler fails and no session is established.                *)
C27_NamedUserVerifiedWhenAnonymousAllowed ==
    [][(RxStep("CONNECT") /\ conf.allow_anonymous) =>
          \A pkt \in ConnectPackets :
              LET g == last'.gobj
              IN  (/\ pkt.username # ""
                   /\ NoValidCredentials(pkt)
                   /\ ReachesAuthentication(g, pkt)
                   /\ RxData(g, pkt))
                  => /\ last'.rc < 0
                     /\ ~priv'[g].in_session]_vars

(***************************************************************************)
(* C28: inbound frames above max_packet_size                               *)
(***************************************************************************)
(* C28: with max_packet_size > 0, an inbound frame whose remaining length   *)
(* exceeds max_packet_size is rejected and is not dispatched to the handler *)
(* of its command.                                                          *)
C28_OversizeFrameNotDispatched ==
    [][(last'.ev = "EV_RX_DATA" /\ conf.max_packet_size > 0) =>
          \A pkt \in SizedPackets(last'.gobj) :
              (/\ pkt.frame_length > conf.max_packet_size
               /\ RxStep(pkt.cmd)
               /\ RxData(last'.gobj, pkt))
              => /\ ~last'.dispatched
                 /\ last'.rc < 0]_vars

(***************************************************************************)
(* C29: the variable byte integer                                          *)
(***************************************************************************)
Pow128(n) == IF n = 1 THEN 128 ELSE IF n = 2 THEN 16384
             ELSE IF n = 3 THEN 2097152 ELSE VarintMax + 1

(* The least number of bytes of seven bits that hold the word.              *)
MinimalBytes(v) ==
    CHOOSE n \in 1 .. 4 :
        /\ v < Pow128(n)
        /\ \A m \in 1 .. n - 1 : v >= Pow128(m)

(* C29: for every word v with 0 <= v <= 268,435,455, writing v as a         *)
(* variable byte integer succeeds and uses the minimum number of bytes, and *)
(* reading the bytes back succeeds, consumes them all and yields v.         *)
C29_VarintRoundTripMinimal ==
    [][uint32 <= VarintMax =>
          /\ last'.ev = "mqtt_write_varint" =>
                 /\ last'.rc = 0
                 /\ Len(gbuf') = MinimalBytes(uint32)
          /\ last'.ev = "mqtt_read_varint" =>
                 /\ last'.rc = 0
                 /\ uint32' = uint32
                 /\ gbuf' = << >>]_vars

(* The largest word of four bytes has been written and read back.           *)
C29_Witness ==
    /\ last.ev = "mqtt_read_varint" /\ last.rc = 0
    /\ uint32 = VarintMax
    /\ gbuf = << >>

(* The session of client id c held by gobj g is live: the gobj is in        *)
(* session for c and its connection is open, neither closed nor being       *)
(* dropped.                                                                 *)
LiveSession(g, c) ==
    /\ tcp[g] = "open"
    /\ priv[g].in_session
    /\ priv[g].client_id = c

(* C30: a registry record is marked connected and points to a session       *)
(* exactly when that session is the live session of the client id: a record *)
(* that is marked connected points to a gobj in session for that client id, *)
(* and the record of a live session is marked connected and points to it.   *)
(* In particular the record keeps naming the new session after the session  *)
(* displaced by a duplicate CONNECT has finished disconnecting.             *)
C30_RecordNamesLiveSession ==
    \A c \in ClientIds : \A g \in Gobjs :
        /\ (clients[c].isConnected /\ clients[c].gobj = g)
              => (priv[g].in_session /\ priv[g].client_id = c)
        /\ LiveSession(g, c)
              => (clients[c].isConnected /\ clients[c].gobj = g)

(* Handling the packets of the buffer in turn closes the connection.        *)
ClosesOnError(g, pkts) == gbuf_loop(set_timeout(World, g, pingT), g, pkts).rc < 0

(* The step leaves the program where the result r of handling some        *)
(* packets leaves it, with at least n packets unread.                      *)
EndsAs(r, n) ==
    /\ tcp' = r.w.tcp /\ priv' = r.w.priv /\ clients' = r.w.clients
    /\ timer' = r.w.timer /\ out' = r.w.out
    /\ last'.cmd = r.pkt.cmd /\ last'.rc = r.rc /\ last'.dispatched = r.dispatched
    /\ Len(gbuf') >= n

SentStates ==
    {"mosq_ms_wait_for_puback", "mosq_ms_wait_for_pubrec", "mosq_ms_wait_for_pubcomp"}

InFlight(q) == {i \in DOMAIN q : q[i].state \in SentStates}

(* C32: an outbound message that arrives while max_inflight_messages        *)
(* messages are unacknowledged is put in the queued state instead of being  *)
(* sent (and is released later, in the order of queueing): a step that      *)
(* begins with the limit reached sends no PUBLISH of QoS 1 or 2 to that     *)
(* session, and no more than max_inflight_messages entries are ever sent    *)
(* and unacknowledged.                                                      *)
C32_OverLimitQueuedNotSent ==
    [][\A h \in Gobjs :
          /\ Cardinality(InFlight(priv[h].dl_msgs_out)) >= conf.max_inflight_messages
                => ~\E i \in DOMAIN out' :
                        out'[i].cmd = "PUBLISH" /\ out'[i].to = h /\ out'[i].qos > 0
          /\ Cardinality(InFlight(priv'[h].dl_msgs_out)) <= conf.max_inflight_messages]_vars

(* The message id that follows mid: 65535 is followed by 1.                 *)
MidSuccessor(mid) == IF mid = 65535 THEN 1 ELSE mid + 1

(* C33: the message ids generated for a session are never 0, stay within    *)
(* 1..65535, and each is the successor of the one generated before it,      *)
(* wrapping from 65535 to 1.  The ids generated for the session are the     *)
(* mids of its outbound entries, the newest first.                          *)
C33_GeneratedMidsAreSuccessive ==
    \A g \in Gobjs : \A i \in DOMAIN priv[g].dl_msgs_out :
        /\ priv[g].dl_msgs_out[i].mid \in 1 .. 65535
        /\ i < Len(priv[g].dl_msgs_out)
              => priv[g].dl_msgs_out[i].mid = MidSuccessor(priv[g].dl_msgs_out[i + 1].mid)

(* The record of client c is a session that is disconnected and holds a     *)
(* subscription of QoS 1 or 2 to the topic.                                 *)
DisconnectedSubscriber(c, topic) ==
    /\ clients[c].exists /\ ~clients[c].isConnected
    /\ topic \in DOMAIN clients[c].subscriptions
    /\ clients[c].subscriptions[topic].qos > 0

(* C34: a PUBLISH of QoS 1 or 2 that matches a subscription of a persistent *)
(* session that is disconnected is enqueued for that session (and delivered *)
(* when the client reconnects with clean_start = 0): handling the PUBLISH   *)
(* leaves the message with the session, whose record is the only state the  *)
(* broker keeps for a disconnected client.  The client here is the first    *)
(* one, whose sessions are all persistent.                                  *)
C34_PublishEnqueuedForDisconnectedSession ==
    [][\A g \in Gobjs : \A pkt \in PersistentPackets(g) :
          (/\ RxData(g, pkt)
           /\ pkt.cmd = "PUBLISH" /\ pkt.qos >= 1 /\ last'.dispatched /\ last'.rc = 0
           /\ DisconnectedSubscriber(ClientSeq[1], pkt.topic))
          => clients'[ClientSeq[1]] # clients[ClientSeq[1]]]_vars

(* The entries of the inbound queue of gobj g that carry the mid.           *)
InboundOf(q, mid) == {i \in DOMAIN q : q[i].mid = mid}

(* C35: when a QoS 2 PUBLISH arrives with the mid of a stored inbound       *)
(* message that is not yet released, but with different content, the old    *)
(* stored message is dropped and never delivered, and the new message takes *)
(* its place for that mid: after the PUBLISH the inbound queue holds one    *)
(* entry of that mid, with the new topic, and the step delivers nothing;    *)
(* and what a PUBREL delivers is the topic stored for its mid.              *)
C35_ReusedMidReplacesStoredMessage ==
    [][\A g \in Gobjs : \A pkt \in ReusePackets(g) :
          /\ (/\ RxData(g, pkt) /\ pkt.cmd = "PUBLISH" /\ pkt.qos = 2
               /\ \E i \in InboundOf(priv[g].dl_msgs_in, pkt.mid) :
                      priv[g].dl_msgs_in[i].store.topic # pkt.topic)
              => /\ last'.rc = 0
                 /\ \A i \in DOMAIN out' : out'[i].cmd # "PUBLISH"
                 /\ Cardinality(InboundOf(priv'[g].dl_msgs_in, pkt.mid)) = 1
                 /\ \A i \in InboundOf(priv'[g].dl_msgs_in, pkt.mid) :
                       /\ priv'[g].dl_msgs_in[i].store.topic = pkt.topic
                       /\ ~priv'[g].dl_msgs_in[i].freed
          /\ (RxData(g, pkt) /\ pkt.cmd = "PUBREL")
              => \A i \in DOMAIN out' :
                    out'[i].cmd = "PUBLISH"
                    => \E j \in InboundOf(priv[g].dl_msgs_in, pkt.mid) :
                          /\ priv[g].dl_msgs_in[j].store.topic = out'[i].topic
                          /\ InboundOf(priv'[g].dl_msgs_in, pkt.mid)
                                = {k \in InboundOf(priv[g].dl_msgs_in, pkt.mid) : k < j}]_vars

(* The subscriptions of the client of gobj g.                               *)
SubscriptionsOf(cl, g) == cl[priv[g].client_id].subscriptions

(* C36: subscribing again to a filter the client already holds replaces     *)
(* the QoS and the options of that subscription (no_local here) with the    *)
(* new values, and leaves exactly one subscription for that filter: the     *)
(* client's other subscriptions stay as they are.                           *)
C36_ResubscribeReplacesOptions ==
    [][\A g \in Gobjs : \A pkt \in RouterPackets(g) :
          (/\ RxData(g, pkt) /\ pkt.cmd = "SUBSCRIBE"
           /\ priv[g].in_session
           /\ pkt.topic \in DOMAIN SubscriptionsOf(clients, g))
          => /\ DOMAIN SubscriptionsOf(clients', g) = DOMAIN SubscriptionsOf(clients, g)
             /\ \A f \in DOMAIN SubscriptionsOf(clients, g) \ {pkt.topic} :
                   SubscriptionsOf(clients', g)[f] = SubscriptionsOf(clients, g)[f]
             /\ SubscriptionsOf(clients', g)[pkt.topic].qos =
                   (IF pkt.qos > conf.max_qos THEN conf.max_qos ELSE pkt.qos)
             /\ SubscriptionsOf(clients', g)[pkt.topic].no_local = pkt.no_local]_vars

(* The acknowledgement that removes an outbound entry: PUBACK for a QoS 1   *)
(* entry, PUBCOMP for a QoS 2 entry that awaits it.                         *)
AckMatches(e, cmd) ==
    \/ cmd = "PUBACK" /\ e.qos = 1
    \/ cmd = "PUBCOMP" /\ e.qos = 2 /\ e.state = "mosq_ms_wait_for_pubcomp"

(* The entries of an outbound queue that carry the mid.                     *)
OutboundOf(q, mid) == {i \in DOMAIN q : q[i].mid = mid}

(* C37: an outbound entry is removed only by the acknowledgement that       *)
(* matches its QoS and state.  A PUBACK or PUBCOMP removes at most one      *)
(* entry, of its mid, which it matches; and when the entries of its mid are *)
(* all of another kind (a PUBACK for a QoS 2 mid, a PUBCOMP for a QoS 1 mid *)
(* or for a QoS 2 entry that still awaits PUBREC) it is a protocol error    *)
(* and leaves the queue as it was.                                          *)
C37_OnlyMatchingAckRemovesEntry ==
    [][\A g \in Gobjs : \A pkt \in AckingPackets(g) :
          (RxData(g, pkt) /\ pkt \in FinalAcks /\ priv[g].in_session)
          => /\ \/ priv'[g].dl_msgs_out = priv[g].dl_msgs_out
                \/ \E i \in DOMAIN priv[g].dl_msgs_out :
                      /\ priv[g].dl_msgs_out[i].mid = pkt.mid
                      /\ AckMatches(priv[g].dl_msgs_out[i], pkt.cmd)
                      /\ priv'[g].dl_msgs_out = Without(priv[g].dl_msgs_out, i)
             /\ (/\ OutboundOf(priv[g].dl_msgs_out, pkt.mid) # {}
                 /\ \A i \in OutboundOf(priv[g].dl_msgs_out, pkt.mid) :
                       ~AckMatches(priv[g].dl_msgs_out[i], pkt.cmd))
                => /\ last'.rc = MOSQ_ERR_PROTOCOL
                   /\ priv'[g].dl_msgs_out = priv[g].dl_msgs_out]_vars

(* A PUBCOMP was refused as a protocol error while the QoS 2 entry of its   *)
(* mid still awaited PUBREC, and a PUBACK while the entry of its mid was of *)
(* QoS 2: the entry is still queued.                                        *)
C37_Witness ==
    /\ last.ev = "EV_RX_DATA" /\ last.cmd \in {"PUBACK", "PUBCOMP"} /\ last.dispatched
    /\ last.rc = MOSQ_ERR_PROTOCOL
    /\ priv[last.gobj].dl_msgs_out # << >>
    /\ \A i \in DOMAIN priv[last.gobj].dl_msgs_out :
          /\ priv[last.gobj].dl_msgs_out[i].mid = 1
          /\ priv[last.gobj].dl_msgs_out[i].qos = 2
          /\ priv[last.gobj].dl_msgs_out[i].state = "mosq_ms_wait_for_pubrec"

(* The events of that name that the step publishes for gobj g.              *)
Published(g, name) == {i \in DOMAIN out' : out'[i].cmd = name /\ out'[i].to = g}

(* on_open is published once by the CONNECT that opens a session on gobj g  *)
(* and by no other step; on_close is published once when the connection of  *)
(* a gobj in session ends and by no other step.                             *)
OpenClosePaired(g) ==
    /\ Cardinality(Published(g, "EV_ON_OPEN")) =
           IF last'.gobj = g /\ RxStep("CONNECT") /\ last'.rc = 0
                /\ ~priv[g].in_session /\ priv'[g].in_session
           THEN 1 ELSE 0
    /\ Cardinality(Published(g, "EV_ON_CLOSE")) =
           IF last'.gobj = g /\ last'.ev = "EV_DISCONNECTED" /\ priv[g].in_session
           THEN 1 ELSE 0

(* C38: every accepted CONNECT publishes exactly one on_open, carrying the  *)
(* client id of the session; when the connection of that session ends       *)
(* exactly one on_close is published, carrying the same client id; and no   *)
(* on_close is published for a connection on which no session was accepted. *)
C38_OpenAndCloseCarrySameClient ==
    [][\A g \in Gobjs :
          /\ OpenClosePaired(g)
          /\ \A i \in Published(g, "EV_ON_OPEN") :
                out'[i].source_id = priv'[g].client_id
          /\ \A i \in Published(g, "EV_ON_CLOSE") :
                out'[i].source_id = priv[g].client_id]_vars

(* C39: a transport that connects and completes no CONNECT within           *)
(* timeout_handshake is closed by the engine: when the timer armed by       *)
(* EV_CONNECTED expires on an open connection without a session, the step   *)
(* closes the connection.                                                   *)
C39_HandshakeTimeoutCloses ==
    [][\A g \in Gobjs :
          (last'.ev = "EV_TIMEOUT" /\ last'.gobj = g
             /\ tcp[g] = "open" /\ ~priv[g].in_session /\ idle[g] = timeout_handshake)
          => tcp'[g] # "open"]_vars

(* C40: a stored message is never released while a delivery-queue entry     *)
(* still refers to it.  The store of an outbound entry is a copy released   *)
(* only by db_free_client_msg, together with the entry; the store of an     *)
(* inbound entry is the one that handle_publish looks up again for a        *)
(* duplicate: every queued inbound entry refers to a store still held.      *)
C40_QueuedStoresAreHeld ==
    \A g \in Gobjs :
        \A i \in DOMAIN priv[g].dl_msgs_in : ~priv[g].dl_msgs_in[i].freed
====
